---- MODULE Spec2Model ----
(***************************************************************************)
(* Ledger model of the SecureCore banking back office (BMS).               *)
(*                                                                         *)
(* Money is counted in paise: Decimal('1.00') is 100.  Every repository    *)
(* call goes through DatabaseManager.execute_query, which takes its own    *)
(* pooled connection and commits the statement at once; the connection     *)
(* opened by `with db_manager.get_transaction() as conn` is never handed   *)
(* to a repository, so the block neither groups nor rolls back the         *)
(* statements issued inside it.  Each SQL statement is therefore one       *)
(* atomic step of the model, and a service call is a sequence of steps     *)
(* that other sessions may interleave with.                                *)
(***************************************************************************)
EXTENDS Integers, Sequences, FiniteSets, TLC

\* ------------------------------------------------------------ bounds
\* Service calls begun in one behaviour.
MaxOps == 2

\* Concurrent sessions (Streamlit runs each browser session in its own thread).
Procs == {"s1", "s2"}

\* Rows of the accounts table, and the ids a caller may pass (3 has no row).
AccountIds == {1, 2}
ArgAccounts == {1, 2, 3}

\* Rows of the users table, and the actor ids a caller may pass (0: None/unknown).
Users == {1, 2, 3}
ArgActors == {0, 1, 2}

\* Amounts a caller may pass, in paise (50 is below the 1.00 minimum).
Amounts == {50, 100}

\* Caller-supplied reference tokens ("" stands for None).
References == {"", "R1"}

\* Balances the accounts may hold when the behaviour starts.
InitialBalances == {0, 40}

\* ------------------------------------------------------------ stored data
\* users.role, as stored (UserRole values).
user_role(u) == IF u = 1 THEN "admin" ELSE "customer"

\* accounts.user_id and accounts.od_limit are set at creation and never updated.
account_user_id(a) == IF a = 1 THEN 2 ELSE 3
account_od_limit(a) == IF a = 1 THEN 0 ELSE 100

\* accounts.account_type and accounts.min_balance, set at creation from the
\* account type's configuration (savings: 500.00, current: 1000.00).
account_type(a) == IF a = 1 THEN "savings" ELSE "current"
account_min_balance(a) == IF a = 1 THEN 50000 ELSE 100000

VARIABLES
  balance,        \* accounts.balance, per account id
  status,         \* accounts.status, per account id
  transactions,   \* the transactions table, in insertion (commit) order
  audit_logs,     \* the audit_logs table: how many rows it holds
  pc,             \* per session: the statement it executes next
  call,           \* per session: the arguments of the call in progress
  acct,           \* per session: `account` / `from_account` as read by the call
  to_acct,        \* per session: `to_account` as read by the call
  txn_ids,        \* per session: ids returned by create_transaction in this call
  result,         \* per session: what the last finished call returned or raised
  pre,            \* per session: balances and record count when the call began
  opening,        \* per account: the balance it was created with
  faults,         \* statements that failed with a storage error so far
  ops,            \* calls begun so far
  loans,          \* the loans table, in insertion order (loan_id = position)
  loan_emi,       \* the loan_emi table, in insertion order
  fd_accounts,    \* the fd_accounts table, in insertion order
  rd_accounts,    \* the rd_accounts table, in insertion order
  rd_installments, \* the rd_installments table, in insertion order
  loan,           \* per session: `loan` as read by the call
  emi_data,       \* per session: `emi_data` as read by pay_emi
  emi_calc,       \* the EMI desk calculation: arguments, results, loop locals
  slab_calc,      \* the rate lookup: table, amount, tenure, rate found
  rd_calc         \* the RD maturity calculation: arguments and results

vars == <<balance, status, transactions, audit_logs, pc, call, acct, to_acct,
          txn_ids, result, pre, opening, faults, ops, loans, loan_emi,
          fd_accounts, rd_accounts, rd_installments, loan, emi_data, emi_calc,
          slab_calc, rd_calc>>

db == <<balance, status, transactions, audit_logs>>

\* The tables and call locals of the loans and deposits modules, and the two
\* calculations; the account operations touch none of them.
lending_db == <<loans, loan_emi, fd_accounts, rd_accounts, rd_installments>>
lending == <<lending_db, loan, emi_data>>
calc == <<emi_calc, slab_calc, rd_calc>>

NoCall == [op |-> "none"]
NoAccount == [found |-> FALSE, account_id |-> 0, user_id |-> 0, balance |-> 0,
              od_limit |-> 0, status |-> "none"]
NoResult == [status |-> "NONE", op |-> "none"]
NoPre == [balance |-> <<>>, count |-> 0]
NoLoan == [found |-> FALSE]
NoEmi == [found |-> FALSE]
NoCalc == [stage |-> "none"]

\* ------------------------------------------------------------ helpers
\* str.upper() on the role strings the users table holds.
Upper(s) == CASE s = "admin" -> "ADMIN"
              [] s = "customer" -> "CUSTOMER"
              [] OTHER -> s

\* user_data = UserRepository().find_by_id(performed_by);
\* role = user_data.get('role', '').upper() if user_data else ''
RoleOf(performed_by) ==
  IF performed_by \in Users THEN Upper(user_role(performed_by)) ELSE ""

\* BankingValidator.validate_amount(amount, Decimal('1.00')): positive and at
\* least the minimum (paise cannot carry a third fractional digit).
MinAmount == 100
validate_amount(amount) == amount > 0 /\ amount >= MinAmount

\* AccountRepository.find_account_by_id: one SELECT, the row as it is now.
find_account_by_id(a) ==
  IF a \in AccountIds
    THEN [found |-> TRUE, account_id |-> a, user_id |-> account_user_id(a),
          balance |-> balance[a], od_limit |-> account_od_limit(a),
          status |-> status[a]]
    ELSE NoAccount

\* is_active(acc) of deposit / withdraw / transfer.
is_active(acc) == acc.status = "active"

\* AccountRepository.validate_sufficient_funds, its last two lines.
SufficientFundsLoose(acc, amount) == acc.balance + acc.od_limit + 100 >= amount
SufficientFunds(acc, amount) == acc.balance + acc.od_limit >= amount

\* The Transaction row built by deposit / withdraw / transfer.
Txn(account_id, related, txn_type, amount, balance_after, reference, by) ==
  [account_id |-> account_id, related_account_id |-> related,
   txn_type |-> txn_type, amount |-> amount, balance_after_txn |-> balance_after,
   reference |-> reference, created_by |-> by]

\* StringUtils.generate_reference_number(prefix): prefix, timestamp and a uuid
\* fragment; the call counter stands for the part that differs between calls.
generate_reference_number(prefix) == <<prefix, ops>>

\* `if not reference: reference = generate_reference_number(prefix)`
ReferenceOf(reference, prefix) ==
  IF reference = "" THEN generate_reference_number(prefix) ELSE <<reference, 0>>

\* f"{reference}-D" and f"{reference}-C"
DebitReferenceSwapped(reference) == Append(reference, "-C")
DebitReference(reference) == Append(reference, "-D")
CreditReference(reference) == Append(reference, "-C")

\* What a call raises: the exception class and what its message carries.
Raise(op, error, message) ==
  [status |-> "FAILED", op |-> op, error |-> error, message |-> message]

\* ------------------------------------------------------------ initial state
Init ==
  /\ balance \in [AccountIds -> InitialBalances]
  /\ status = [a \in AccountIds |-> "active"]
  /\ transactions = <<>>
  /\ audit_logs = 0
  /\ pc = [p \in Procs |-> "idle"]
  /\ call = [p \in Procs |-> NoCall]
  /\ acct = [p \in Procs |-> NoAccount]
  /\ to_acct = [p \in Procs |-> NoAccount]
  /\ txn_ids = [p \in Procs |-> <<>>]
  /\ result = [p \in Procs |-> NoResult]
  /\ pre = [p \in Procs |-> NoPre]
  /\ opening = balance
  /\ faults = 0
  /\ ops = 0
  /\ loans = <<>>
  /\ loan_emi = <<>>
  /\ fd_accounts = <<>>
  /\ rd_accounts = <<>>
  /\ rd_installments = <<>>
  /\ loan = [p \in Procs |-> NoLoan]
  /\ emi_data = [p \in Procs |-> NoEmi]
  /\ emi_calc = NoCalc
  /\ slab_calc = NoCalc
  /\ rd_calc = NoCalc

\* ------------------------------------------------------------ step plumbing
\* The call of session p ends: its locals are dropped, its outcome is kept.
Finish(p, r) ==
  /\ pc' = [pc EXCEPT ![p] = "idle"]
  /\ call' = [call EXCEPT ![p] = NoCall]
  /\ acct' = [acct EXCEPT ![p] = NoAccount]
  /\ to_acct' = [to_acct EXCEPT ![p] = NoAccount]
  /\ pre' = [pre EXCEPT ![p] = NoPre]
  /\ result' = [result EXCEPT ![p] = r]

\* Session p moves on to statement `next`, keeping what it has read.
Goto(p, next) ==
  /\ pc' = [pc EXCEPT ![p] = next]
  /\ UNCHANGED <<call, pre, result, acct, to_acct>>

\* Session p calls a service method with arguments c.  `failure` is what the
\* checks made before the first statement raise (NoResult when they pass).
Start(p, c, failure, next) ==
  /\ pc[p] = "idle"
  /\ ops < MaxOps
  /\ ops' = ops + 1
  /\ txn_ids' = [txn_ids EXCEPT ![p] = <<>>]
  /\ IF failure.status = "FAILED"
       THEN /\ result' = [result EXCEPT ![p] = failure]
            /\ UNCHANGED <<pc, call, pre>>
       ELSE /\ pc' = [pc EXCEPT ![p] = next]
            /\ call' = [call EXCEPT ![p] = c]
            /\ pre' = [pre EXCEPT ![p] =
                         [balance |-> balance, count |-> Len(transactions)]]
            /\ result' = [result EXCEPT ![p] = NoResult]
  /\ UNCHANGED <<db, acct, to_acct, opening, faults>>

\* A statement that fails (mysql.connector.Error, re-raised as
\* DatabaseException by BaseRepository) leaves the tables as they are and
\* ends the call.
StorageError(p, message) ==
  /\ Finish(p, Raise(call[p].op, "DatabaseException", message))
  /\ faults' = faults + 1
  /\ UNCHANGED <<db, txn_ids, opening, ops>>

\* BaseRepository.update(account_id, {'balance': new_balance}), committed.
update_balance(a, new_balance) ==
  balance' = [balance EXCEPT ![a] = new_balance]

\* TransactionRepository.create_transaction: one INSERT, committed; the new
\* row's id (lastrowid) is returned to session p.
create_transaction(p, t) ==
  /\ transactions' = Append(transactions, t)
  /\ txn_ids' = [txn_ids EXCEPT ![p] = Append(@, Len(transactions) + 1)]

\* AuditService().log(actor_id, role, action, details): one INSERT, committed.
AuditLog(actor_id, role, action) ==
  /\ audit_logs' = audit_logs + 1
  /\ UNCHANGED faults

\* `if role != 'ADMIN': raise ...` of deposit / withdraw / freeze / close.
IsAdminLoose(role) == role # ""
IsAdmin(role) == role = "ADMIN"

\* ------------------------------------------------------------ deposit
\* The audit INSERT that closes every call is folded into the step of the
\* call's last write to accounts / transactions: no session reads audit_logs,
\* so nothing can be observed between the two statements.  When it fails the
\* exception leaves the service method with the earlier statements committed.
DepositPrecheck(amount, performed_by) ==
  IF ~validate_amount(amount)
    THEN Raise("deposit", "ValidationException", "amount")
  ELSE IF ~IsAdmin(RoleOf(performed_by))
    THEN Raise("deposit", "InvalidTransactionException", "Unauthorized")
  ELSE NoResult

DepositCall(p) ==
  \E a \in ArgAccounts, amount \in Amounts, by \in ArgActors, ref \in References :
    Start(p, [op |-> "deposit", account_id |-> a, amount |-> amount,
              performed_by |-> by, reference |-> ReferenceOf(ref, "DEP")],
          DepositPrecheck(amount, by), "dep_find")

DepositFindAccount(p) ==
  /\ pc[p] = "dep_find"
  /\ LET account == find_account_by_id(call[p].account_id) IN
       IF ~account.found
         THEN Finish(p, Raise("deposit", "AccountNotFoundException", "account"))
       ELSE IF ~is_active(account)
         THEN Finish(p, Raise("deposit", "InvalidTransactionException", "blocked"))
       ELSE /\ pc' = [pc EXCEPT ![p] = "dep_update"]
            /\ acct' = [acct EXCEPT ![p] = account]
            /\ UNCHANGED <<call, pre, result, to_acct>>
  /\ UNCHANGED <<db, txn_ids, opening, faults, ops>>

DepositUpdateBalance(p) ==
  /\ pc[p] = "dep_update"
  /\ \/ StorageError(p, "update_balance")
     \/ /\ update_balance(call[p].account_id, acct[p].balance + call[p].amount)
        /\ Goto(p, "dep_record")
        /\ UNCHANGED <<status, transactions, audit_logs, txn_ids, opening, faults, ops>>

DepositCreateTransaction(p) ==
  /\ pc[p] = "dep_record"
  /\ \/ StorageError(p, "create_transaction")
     \/ /\ create_transaction(p,
             Txn(call[p].account_id, 0, "DEPOSIT", call[p].amount,
                 acct[p].balance + call[p].amount, call[p].reference,
                 call[p].performed_by))
        /\ \/ /\ AuditLog(call[p].performed_by, "admin", "CASH_DEPOSIT")
              /\ Finish(p, [status |-> "SUCCESS", op |-> "deposit",
                            txn_id |-> Len(transactions) + 1,
                            reference |-> call[p].reference,
                            account_id |-> call[p].account_id,
                            amount |-> call[p].amount,
                            new_balance |-> acct[p].balance + call[p].amount])
           \/ /\ Finish(p, Raise("deposit", "DatabaseException", "audit"))
              /\ faults' = faults + 1
              /\ UNCHANGED audit_logs
        /\ UNCHANGED <<balance, status, opening, ops>>

\* ------------------------------------------------------------ withdraw
WithdrawPrecheck(amount, performed_by) ==
  IF ~validate_amount(amount)
    THEN Raise("withdraw", "ValidationException", "amount")
  ELSE IF ~IsAdmin(RoleOf(performed_by))
    THEN Raise("withdraw", "InvalidTransactionException", "Unauthorized")
  ELSE NoResult

WithdrawCall(p) ==
  \E a \in ArgAccounts, amount \in Amounts, by \in ArgActors, ref \in References :
    Start(p, [op |-> "withdraw", account_id |-> a, amount |-> amount,
              performed_by |-> by, reference |-> ReferenceOf(ref, "WDR")],
          WithdrawPrecheck(amount, by), "wdr_find")

WithdrawFindAccount(p) ==
  /\ pc[p] = "wdr_find"
  /\ LET account == find_account_by_id(call[p].account_id) IN
       IF ~account.found
         THEN Finish(p, Raise("withdraw", "AccountNotFoundException", "account"))
       ELSE IF ~is_active(account)
         THEN Finish(p, Raise("withdraw", "InvalidTransactionException", "blocked"))
       ELSE /\ pc' = [pc EXCEPT ![p] = "wdr_check"]
            /\ acct' = [acct EXCEPT ![p] = account]
            /\ UNCHANGED <<call, pre, result, to_acct>>
  /\ UNCHANGED <<db, txn_ids, opening, faults, ops>>

\* The InsufficientFundsException of withdraw.  Its message prints
\* `available` (account.balance + account.od_limit of the account as first
\* read) and the requested amount.
WithdrawInsufficientShortfall(account, amount) ==
  [status |-> "FAILED", op |-> "withdraw", error |-> "InsufficientFundsException",
   message |-> "Insufficient funds",
   shown |-> [Shortfall |-> amount - (account.balance + account.od_limit)]]
WithdrawInsufficient(account, amount) ==
  [status |-> "FAILED", op |-> "withdraw", error |-> "InsufficientFundsException",
   message |-> "Insufficient funds",
   shown |-> [Available |-> account.balance + account.od_limit,
              Requested |-> amount]]

\* account_repo.validate_sufficient_funds(account_id, amount): reads the row
\* again, then compares.
WithdrawCheckFunds(p) ==
  /\ pc[p] = "wdr_check"
  /\ LET fresh == find_account_by_id(call[p].account_id) IN
       IF ~fresh.found
         THEN Finish(p, Raise("withdraw", "AccountNotFoundException", "account"))
       ELSE IF fresh.status # "active"
         THEN Finish(p, Raise("withdraw", "ValidationException", "not active"))
       ELSE IF ~SufficientFunds(fresh, call[p].amount)
         THEN Finish(p, WithdrawInsufficient(acct[p], call[p].amount))
       ELSE Goto(p, "wdr_update")
  /\ UNCHANGED <<db, txn_ids, opening, faults, ops>>

WithdrawUpdateBalance(p) ==
  /\ pc[p] = "wdr_update"
  /\ \/ StorageError(p, "update_balance")
     \/ /\ update_balance(call[p].account_id, acct[p].balance - call[p].amount)
        /\ Goto(p, "wdr_record")
        /\ UNCHANGED <<status, transactions, audit_logs, txn_ids, opening, faults, ops>>

WithdrawCreateTransaction(p) ==
  /\ pc[p] = "wdr_record"
  /\ \/ StorageError(p, "create_transaction")
     \/ /\ create_transaction(p,
             Txn(call[p].account_id, 0, "WITHDRAWAL", call[p].amount,
                 acct[p].balance - call[p].amount, call[p].reference,
                 call[p].performed_by))
        /\ \/ /\ AuditLog(call[p].performed_by, "admin", "CASH_WITHDRAWAL")
              /\ Finish(p, [status |-> "SUCCESS", op |-> "withdraw",
                            txn_id |-> Len(transactions) + 1,
                            reference |-> call[p].reference,
                            account_id |-> call[p].account_id,
                            amount |-> call[p].amount,
                            new_balance |-> acct[p].balance - call[p].amount])
           \/ /\ Finish(p, Raise("withdraw", "DatabaseException", "audit"))
              /\ faults' = faults + 1
              /\ UNCHANGED audit_logs
        /\ UNCHANGED <<balance, status, opening, ops>>

\* ------------------------------------------------------------ transfer
TransferPrecheck(from_account_id, to_account_id, amount) ==
  IF ~validate_amount(amount)
    THEN Raise("transfer", "ValidationException", "amount")
  ELSE IF from_account_id = to_account_id
    THEN Raise("transfer", "ValidationException", "same account")
  ELSE NoResult

TransferCall(p) ==
  \E f \in ArgAccounts, t \in ArgAccounts, amount \in Amounts,
     by \in ArgActors, ref \in References :
    Start(p, [op |-> "transfer", account_id |-> f, to_account_id |-> t,
              amount |-> amount, performed_by |-> by,
              reference |-> ReferenceOf(ref, "TRF")],
          TransferPrecheck(f, t, amount), "trf_find_from")

TransferFindFrom(p) ==
  /\ pc[p] = "trf_find_from"
  /\ pc' = [pc EXCEPT ![p] = "trf_find_to"]
  /\ acct' = [acct EXCEPT ![p] = find_account_by_id(call[p].account_id)]
  /\ UNCHANGED <<db, call, pre, result, to_acct, txn_ids, opening, faults, ops>>

\* `if role != 'ADMIN': if from_account.user_id != performed_by: raise ...`
MayTransferAnyone(role, from_account, performed_by) == TRUE
MayTransfer(role, from_account, performed_by) ==
  role = "ADMIN" \/ from_account.user_id = performed_by

\* The second SELECT, then the checks made on the two rows as read.
TransferFindTo(p) ==
  /\ pc[p] = "trf_find_to"
  /\ LET from_account == acct[p]
         to_account == find_account_by_id(call[p].to_account_id) IN
       IF ~from_account.found
         THEN Finish(p, Raise("transfer", "AccountNotFoundException", "source"))
       ELSE IF ~to_account.found
         THEN Finish(p, Raise("transfer", "AccountNotFoundException", "destination"))
       ELSE IF ~MayTransfer(RoleOf(call[p].performed_by), from_account,
                            call[p].performed_by)
         THEN Finish(p, Raise("transfer", "InvalidTransactionException", "Unauthorized"))
       ELSE IF ~is_active(from_account)
         THEN Finish(p, Raise("transfer", "InvalidTransactionException", "blocked"))
       ELSE IF ~is_active(to_account)
         THEN Finish(p, Raise("transfer", "InvalidTransactionException", "blocked"))
       ELSE /\ pc' = [pc EXCEPT ![p] = "trf_check"]
            /\ to_acct' = [to_acct EXCEPT ![p] = to_account]
            /\ UNCHANGED <<call, pre, result, acct>>
  /\ UNCHANGED <<db, txn_ids, opening, faults, ops>>

\* The InsufficientFundsException of transfer: its message prints `available`.
TransferInsufficient(from_account, amount) ==
  [status |-> "FAILED", op |-> "transfer", error |-> "InsufficientFundsException",
   message |-> "Insufficient funds",
   shown |-> [Available |-> from_account.balance + from_account.od_limit]]

TransferCheckFunds(p) ==
  /\ pc[p] = "trf_check"
  /\ LET fresh == find_account_by_id(call[p].account_id) IN
       IF ~fresh.found
         THEN Finish(p, Raise("transfer", "AccountNotFoundException", "account"))
       ELSE IF fresh.status # "active"
         THEN Finish(p, Raise("transfer", "ValidationException", "not active"))
       ELSE IF ~SufficientFunds(fresh, call[p].amount)
         THEN Finish(p, TransferInsufficient(acct[p], call[p].amount))
       ELSE Goto(p, "trf_update_from")
  /\ UNCHANGED <<db, txn_ids, opening, faults, ops>>

TransferUpdateFrom(p) ==
  /\ pc[p] = "trf_update_from"
  /\ \/ StorageError(p, "update_balance")
     \/ /\ update_balance(call[p].account_id, acct[p].balance - call[p].amount)
        /\ Goto(p, "trf_update_to")
        /\ UNCHANGED <<status, transactions, audit_logs, txn_ids, opening, faults, ops>>

TransferUpdateTo(p) ==
  /\ pc[p] = "trf_update_to"
  /\ \/ StorageError(p, "update_balance")
     \/ /\ update_balance(call[p].to_account_id, to_acct[p].balance + call[p].amount)
        /\ Goto(p, "trf_debit")
        /\ UNCHANGED <<status, transactions, audit_logs, txn_ids, opening, faults, ops>>

TransferCreateDebit(p) ==
  /\ pc[p] = "trf_debit"
  /\ \/ StorageError(p, "create_transaction")
     \/ /\ create_transaction(p,
             Txn(call[p].account_id, call[p].to_account_id, "TRANSFER_DEBIT",
                 call[p].amount, acct[p].balance - call[p].amount,
                 DebitReference(call[p].reference), call[p].performed_by))
        /\ Goto(p, "trf_credit")
        /\ UNCHANGED <<balance, status, audit_logs, opening, faults, ops>>

TransferCreateCredit(p) ==
  /\ pc[p] = "trf_credit"
  /\ \/ StorageError(p, "create_transaction")
     \/ /\ create_transaction(p,
             Txn(call[p].to_account_id, call[p].account_id, "TRANSFER_CREDIT",
                 call[p].amount, to_acct[p].balance + call[p].amount,
                 CreditReference(call[p].reference), call[p].performed_by))
        /\ \/ /\ AuditLog(call[p].performed_by, "customer", "TRANSFER")
              /\ Finish(p, [status |-> "SUCCESS", op |-> "transfer",
                            debit_txn_id |-> txn_ids[p][1],
                            credit_txn_id |-> Len(transactions) + 1,
                            reference |-> call[p].reference,
                            from_account_id |-> call[p].account_id,
                            to_account_id |-> call[p].to_account_id,
                            amount |-> call[p].amount])
           \/ /\ Finish(p, Raise("transfer", "DatabaseException", "audit"))
              /\ faults' = faults + 1
              /\ UNCHANGED audit_logs
        /\ UNCHANGED <<balance, status, opening, ops>>

\* ------------------------------------------------------------ account status
\* AccountService.freeze_account / unfreeze_account / close_account.
StatusPrecheck(op, performed_by) ==
  IF ~IsAdmin(RoleOf(performed_by))
    THEN Raise(op, "ValidationException", "Unauthorized")
  ELSE NoResult

\* BaseRepository.update(account_id, {'status': new_status}), committed, then
\* the audit INSERT.
UpdateStatus(p, new_status, ok) ==
  \/ StorageError(p, "update")
  \/ /\ status' = [status EXCEPT ![call[p].account_id] = new_status]
     /\ \/ /\ AuditLog(call[p].performed_by, "admin", call[p].op)
           /\ Finish(p, ok)
        \/ /\ Finish(p, Raise(call[p].op, "DatabaseException", "audit"))
           /\ faults' = faults + 1
           /\ UNCHANGED audit_logs
     /\ UNCHANGED <<balance, transactions, txn_ids, opening, ops>>

FreezeCall(p) ==
  \E a \in ArgAccounts, by \in ArgActors :
    Start(p, [op |-> "freeze_account", account_id |-> a, performed_by |-> by],
          StatusPrecheck("freeze_account", by), "frz_find")

\* `if account.status == AccountStatus.FROZEN: raise ValidationException`
FreezeRefused(account) == account.status = "frozen"

FreezeFindAccount(p) ==
  /\ pc[p] = "frz_find"
  /\ LET account == find_account_by_id(call[p].account_id) IN
       IF ~account.found
         THEN Finish(p, Raise("freeze_account", "AccountNotFoundException", "account"))
       ELSE IF FreezeRefused(account)
         THEN Finish(p, Raise("freeze_account", "ValidationException", "already frozen"))
       ELSE /\ pc' = [pc EXCEPT ![p] = "frz_update"]
            /\ acct' = [acct EXCEPT ![p] = account]
            /\ UNCHANGED <<call, pre, result, to_acct>>
  /\ UNCHANGED <<db, txn_ids, opening, faults, ops>>

FreezeUpdate(p) ==
  /\ pc[p] = "frz_update"
  /\ UpdateStatus(p, "frozen", [status |-> "SUCCESS", op |-> "freeze_account"])

UnfreezeCall(p) ==
  \E a \in ArgAccounts, by \in ArgActors :
    Start(p, [op |-> "unfreeze_account", account_id |-> a, performed_by |-> by],
          StatusPrecheck("unfreeze_account", by), "unf_find")

\* `if account.status != AccountStatus.FROZEN: raise ValidationException`
UnfreezeRefused(account) == account.status # "frozen"

UnfreezeFindAccount(p) ==
  /\ pc[p] = "unf_find"
  /\ LET account == find_account_by_id(call[p].account_id) IN
       IF ~account.found
         THEN Finish(p, Raise("unfreeze_account", "AccountNotFoundException", "account"))
       ELSE IF UnfreezeRefused(account)
         THEN Finish(p, Raise("unfreeze_account", "ValidationException", "not frozen"))
       ELSE /\ pc' = [pc EXCEPT ![p] = "unf_update"]
            /\ acct' = [acct EXCEPT ![p] = account]
            /\ UNCHANGED <<call, pre, result, to_acct>>
  /\ UNCHANGED <<db, txn_ids, opening, faults, ops>>

UnfreezeUpdate(p) ==
  /\ pc[p] = "unf_update"
  /\ UpdateStatus(p, "active", [status |-> "SUCCESS", op |-> "unfreeze_account"])

CloseCall(p) ==
  \E a \in ArgAccounts, by \in ArgActors :
    Start(p, [op |-> "close_account", account_id |-> a, performed_by |-> by],
          StatusPrecheck("close_account", by), "cls_find")

\* `if account.balance != Decimal('0.00'): raise ValidationException`
HasBalancePositive(account) == account.balance > 0
HasBalance(account) == account.balance # 0

CloseFindAccount(p) ==
  /\ pc[p] = "cls_find"
  /\ LET account == find_account_by_id(call[p].account_id) IN
       IF ~account.found
         THEN Finish(p, Raise("close_account", "AccountNotFoundException", "account"))
       ELSE IF account.status = "closed"
         THEN Finish(p, Raise("close_account", "ValidationException", "already closed"))
       ELSE IF HasBalance(account)
         THEN Finish(p, Raise("close_account", "ValidationException", "non-zero balance"))
       ELSE /\ pc' = [pc EXCEPT ![p] = "cls_update"]
            /\ acct' = [acct EXCEPT ![p] = account]
            /\ UNCHANGED <<call, pre, result, to_acct>>
  /\ UNCHANGED <<db, txn_ids, opening, faults, ops>>

CloseUpdate(p) ==
  /\ pc[p] = "cls_update"
  /\ UpdateStatus(p, "closed",
                  [status |-> "SUCCESS", op |-> "close_account",
                   account_id |-> call[p].account_id,
                   final_balance |-> acct[p].balance])

\* ------------------------------------------------------------ low-balance penalty
\* AccountService._calculate_low_balance_penalty: a flat amount per account type.
_calculate_low_balance_penalty(account_id) ==
  CASE account_type(account_id) = "savings" -> 5000
    [] account_type(account_id) = "current" -> 10000
    [] account_type(account_id) = "salary" -> 0
    [] OTHER -> 5000

\* AccountService.apply_low_balance_penalty(account_id): no actor, no role
\* check and no status check.
PenaltyCall(p) ==
  \E a \in ArgAccounts :
    Start(p, [op |-> "apply_low_balance_penalty", account_id |-> a],
          NoResult, "pen_find")

PenaltyFindAccount(p) ==
  /\ pc[p] = "pen_find"
  /\ LET account == find_account_by_id(call[p].account_id) IN
       IF ~account.found
         THEN Finish(p, Raise("apply_low_balance_penalty",
                              "AccountNotFoundException", "account"))
       ELSE IF account.balance >= account_min_balance(account.account_id)
         THEN Finish(p, [status |-> "SUCCESS", op |-> "apply_low_balance_penalty",
                         penalty_applied |-> FALSE])
       ELSE IF ~(_calculate_low_balance_penalty(account.account_id) > 0)
         THEN Finish(p, [status |-> "SUCCESS", op |-> "apply_low_balance_penalty",
                         penalty_applied |-> FALSE])
       ELSE /\ pc' = [pc EXCEPT ![p] = "pen_update"]
            /\ acct' = [acct EXCEPT ![p] = account]
            /\ UNCHANGED <<call, pre, result, to_acct>>
  /\ UNCHANGED <<db, txn_ids, opening, faults, ops>>

\* `new_balance = account.balance - penalty_amount; update_balance(...)`:
\* one UPDATE, with no transaction record and no audit row.
PenaltyUpdateBalance(p) ==
  /\ pc[p] = "pen_update"
  /\ \/ StorageError(p, "update_balance")
     \/ /\ update_balance(call[p].account_id,
                          acct[p].balance
                          - _calculate_low_balance_penalty(call[p].account_id))
        /\ Finish(p, [status |-> "SUCCESS", op |-> "apply_low_balance_penalty",
                      penalty_applied |-> TRUE])
        /\ UNCHANGED <<status, transactions, audit_logs, txn_ids, opening,
                       faults, ops>>

PenaltyStep(p) ==
  /\ PenaltyCall(p) \/ PenaltyFindAccount(p) \/ PenaltyUpdateBalance(p)
  /\ UNCHANGED <<lending, calc>>

\* ------------------------------------------------------------ decimal.Decimal
\* Python's Decimal under the default context (prec = 28, ROUND_HALF_EVEN):
\* every result of +, -, *, / is the exact result rounded to 28 significant
\* digits.  A natural number is the sequence of its decimal digits, least
\* significant first (<<>> is 0); a Decimal is sign, coefficient, exponent,
\* kept without trailing zeros so that equal values are equal records.
Prec == 28

Digit(x, i) == IF i >= 1 /\ i <= Len(x) THEN x[i] ELSE 0

SetMax(S) == CHOOSE m \in S : \A k \in S : k <= m

\* x without its leading (most significant) zeros.
NatTrim(x) ==
  SubSeq(x, 1, SetMax({0} \cup {i \in 1..Len(x) : x[i] # 0}))

RECURSIVE NatFromInt(_)
NatFromInt(n) == IF n = 0 THEN <<>> ELSE <<n % 10>> \o NatFromInt(n \div 10)

RECURSIVE NatToInt(_)
NatToInt(x) == IF x = <<>> THEN 0 ELSE x[1] + 10 * NatToInt(Tail(x))

\* The sweeps over the digits (carry, borrow, remainder) split the range in
\* two halves, the half done first handing its carry to the other.
\* Digits lo..hi of x + y, given the carry into digit lo.
RECURSIVE NatAddRange(_, _, _, _, _)
NatAddRange(x, y, lo, hi, carry) ==
  IF lo = hi
    THEN LET s == Digit(x, lo) + Digit(y, lo) + carry
         IN [d |-> <<s % 10>>, carry |-> s \div 10]
    ELSE LET mid == (lo + hi) \div 2
             low == NatAddRange(x, y, lo, mid, carry)
             high == NatAddRange(x, y, mid + 1, hi, low.carry)
         IN [d |-> low.d \o high.d, carry |-> high.carry]

NatAdd(x, y) ==
  LET n == IF Len(x) > Len(y) THEN Len(x) ELSE Len(y)
  IN IF n = 0 THEN <<>>
     ELSE LET r == NatAddRange(x, y, 1, n, 0)
          IN IF r.carry = 0 THEN r.d ELSE Append(r.d, r.carry)

\* Digits lo..hi of x - y (for x >= y), given the borrow from digit lo.
RECURSIVE NatSubRange(_, _, _, _, _)
NatSubRange(x, y, lo, hi, borrow) ==
  IF lo = hi
    THEN LET d == Digit(x, lo) - Digit(y, lo) - borrow
         IN IF d < 0 THEN [d |-> <<d + 10>>, borrow |-> 1]
                     ELSE [d |-> <<d>>, borrow |-> 0]
    ELSE LET mid == (lo + hi) \div 2
             low == NatSubRange(x, y, lo, mid, borrow)
             high == NatSubRange(x, y, mid + 1, hi, low.borrow)
         IN [d |-> low.d \o high.d, borrow |-> high.borrow]

NatSub(x, y) ==
  IF x = <<>> THEN <<>> ELSE NatTrim(NatSubRange(x, y, 1, Len(x), 0).d)

\* -1, 0 or 1 as x is below, equal to or above y (neither has leading zeros).
NatCmp(x, y) ==
  IF Len(x) < Len(y) THEN -1
  ELSE IF Len(x) > Len(y) THEN 1
  ELSE LET differ == {i \in 1..Len(x) : x[i] # y[i]}
       IN IF differ = {} THEN 0
          ELSE IF x[SetMax(differ)] < y[SetMax(differ)] THEN -1 ELSE 1

\* x * 10^k
NatShift(x, k) == IF x = <<>> THEN x ELSE [i \in 1..k |-> 0] \o x

\* Digits lo..hi of x * m for a small int m, given the carry into digit lo.
RECURSIVE NatMulSmallRange(_, _, _, _, _)
NatMulSmallRange(x, m, lo, hi, carry) ==
  IF lo = hi
    THEN LET s == x[lo] * m + carry
         IN [d |-> <<s % 10>>, carry |-> s \div 10]
    ELSE LET mid == (lo + hi) \div 2
             low == NatMulSmallRange(x, m, lo, mid, carry)
             high == NatMulSmallRange(x, m, mid + 1, hi, low.carry)
         IN [d |-> low.d \o high.d, carry |-> high.carry]

NatMulSmall(x, m) ==
  IF x = <<>> \/ m = 0 THEN <<>>
  ELSE LET r == NatMulSmallRange(x, m, 1, Len(x), 0)
       IN r.d \o NatFromInt(r.carry)

\* The partial products of x by digits lo..hi of y, summed.
RECURSIVE NatMulRange(_, _, _, _)
NatMulRange(x, y, lo, hi) ==
  IF lo = hi THEN NatShift(NatMulSmall(x, y[lo]), lo - 1)
  ELSE LET mid == (lo + hi) \div 2
       IN NatAdd(NatMulRange(x, y, lo, mid), NatMulRange(x, y, mid + 1, hi))

NatMul(x, y) ==
  IF x = <<>> \/ y = <<>> THEN <<>> ELSE NatMulRange(x, y, 1, Len(y))

\* The sequence s in reverse order.
Reverse(s) == [i \in 1..Len(s) |-> s[Len(s) + 1 - i]]

\* Long division of x by y over digits hi down to lo of x, given the
\* remainder r left by the digits above hi; the quotient digits come most
\* significant first.
RECURSIVE NatDivRange(_, _, _, _, _)
NatDivRange(x, y, hi, lo, r) ==
  IF hi = lo
    THEN LET cur == NatTrim(<<x[hi]>> \o r)
             k == Cardinality({m \in 1..9 : NatCmp(NatMulSmall(y, m), cur) <= 0})
         IN [q |-> <<k>>, r |-> NatSub(cur, NatMulSmall(y, k))]
    ELSE LET mid == (hi + lo) \div 2
             upper == NatDivRange(x, y, hi, mid + 1, r)
             lower == NatDivRange(x, y, mid, lo, upper.r)
         IN [q |-> upper.q \o lower.q, r |-> lower.r]

NatDivMod(x, y) ==
  IF x = <<>> THEN [q |-> <<>>, r |-> <<>>]
  ELSE LET dm == NatDivRange(x, y, Len(x), 1, <<>>)
       IN [q |-> NatTrim(Reverse(dm.q)), r |-> dm.r]

DecZero == [neg |-> FALSE, c |-> <<>>, e |-> 0]

\* c * 10^e without the trailing zeros of c.
DecStrip(c, e) ==
  LET zeros == SetMax({0} \cup {k \in 1..Len(c) : \A i \in 1..k : c[i] = 0})
  IN [c |-> SubSeq(c, zeros + 1, Len(c)), e |-> e + zeros]

DecMake(neg, c, e) ==
  LET s == DecStrip(NatTrim(c), e)
  IN IF s.c = <<>> THEN DecZero ELSE [neg |-> neg, c |-> s.c, e |-> s.e]

\* Decimal(n) for an int n, and Decimal('u.vw') given as the number uvw of
\* hundredths.
DecFromInt(n) == DecMake(n < 0, NatFromInt(IF n < 0 THEN 0 - n ELSE n), 0)
DecFromCents(n) == DecMake(n < 0, NatFromInt(IF n < 0 THEN 0 - n ELSE n), -2)

\* Rounding of the digits below position k + 1: ROUND_HALF_EVEN (the
\* context's mode) and ROUND_HALF_UP.
RoundsUp(mode, c, k, sticky) ==
  LET guard == Digit(c, k)
      tail == sticky \/ \E i \in 1..(k - 1) : Digit(c, i) # 0
  IN IF mode = "ROUND_HALF_UP" THEN guard >= 5
     ELSE guard > 5 \/ (guard = 5 /\ (tail \/ Digit(c, k + 1) % 2 = 1))

\* The coefficient c without its k lowest digits, rounded.
DropDigits(mode, c, k, sticky) ==
  LET kept == IF Len(c) > k THEN SubSeq(c, k + 1, Len(c)) ELSE <<>>
  IN IF RoundsUp(mode, c, k, sticky) THEN NatAdd(kept, <<1>>) ELSE kept

\* The exact value c * 10^e (plus something below its last digit when
\* `sticky`), rounded to prec significant digits.
DecRound(neg, c, e, sticky, prec) ==
  IF Len(c) <= prec THEN DecMake(neg, c, e)
  ELSE DecMake(neg, DropDigits("ROUND_HALF_EVEN", c, Len(c) - prec, sticky),
               e + (Len(c) - prec))

DecIsZero(a) == a.c = <<>>
DecNeg(a) == IF DecIsZero(a) THEN a ELSE [a EXCEPT !.neg = ~a.neg]

\* a + b, exact.
DecSum(a, b) ==
  LET e == IF a.e < b.e THEN a.e ELSE b.e
      ca == NatShift(a.c, a.e - e)
      cb == NatShift(b.c, b.e - e)
  IN IF a.neg = b.neg THEN [neg |-> a.neg, c |-> NatAdd(ca, cb), e |-> e]
     ELSE IF NatCmp(ca, cb) >= 0
       THEN [neg |-> a.neg, c |-> NatSub(ca, cb), e |-> e]
       ELSE [neg |-> b.neg, c |-> NatSub(cb, ca), e |-> e]

DecAdd(a, b) ==
  LET s == DecSum(a, b) IN DecRound(s.neg, s.c, s.e, FALSE, Prec)

DecSub(a, b) == DecAdd(a, DecNeg(b))

\* -1, 0 or 1 as a is below, equal to or above b.
DecCmp(a, b) ==
  LET s == DecSum(a, DecNeg(b))
  IN IF s.c = <<>> THEN 0 ELSE IF s.neg THEN -1 ELSE 1

DecMulTo(a, b, prec) ==
  DecRound(a.neg # b.neg, NatMul(a.c, b.c), a.e + b.e, FALSE, prec)

DecMul(a, b) == DecMulTo(a, b, Prec)

\* a / b for b # 0: enough quotient digits for the rounding, the remainder
\* only as "something is left".
DecDiv(a, b) ==
  LET more == Prec + 2 + Len(b.c) - Len(a.c)
      shift == IF more > 0 THEN more ELSE 0
      dm == NatDivMod(NatShift(a.c, shift), b.c)
  IN DecRound(a.neg # b.neg, dm.q, a.e - b.e - shift, dm.r # <<>>, Prec)

\* a ** n for an int n >= 0.  The interpreter's result is the exact power
\* rounded to the context precision; the products are carried with WorkPrec
\* digits, which leaves that rounding unchanged.
WorkPrec == 40

RECURSIVE DecPowTo(_, _, _)
DecPowTo(a, n, prec) ==
  IF n = 0 THEN DecFromInt(1)
  ELSE IF n = 1 THEN a
  ELSE DecMulTo(DecPowTo(a, n \div 2, prec), DecPowTo(a, n - n \div 2, prec), prec)

DecPow(a, n) ==
  LET p == DecPowTo(a, n, WorkPrec) IN DecRound(p.neg, p.c, p.e, FALSE, Prec)

\* a.quantize(Decimal('0.01'), rounding = mode)
DecQuantize(a, mode) ==
  IF a.e >= -2 THEN a
  ELSE DecMake(a.neg, DropDigits(mode, a.c, -2 - a.e, FALSE), -2)

\* The number of hundredths in a Decimal that has at most 2 fractional digits.
DecToCents(a) ==
  LET n == NatToInt(NatShift(a.c, a.e + 2)) IN IF a.neg THEN 0 - n ELSE n

\* ------------------------------------------------------------ rates and EMI
\* Decimal('u.vw') for an amount given in paise, or a rate in hundredths of
\* a percent.
Money(paise) == DecFromCents(paise)

\* ALLOWED_TENURES of the loan module and of the deposits module.
ALLOWED_TENURES_Wide == {6, 9, 12, 24, 36}
ALLOWED_TENURES == {6, 12, 24, 36}
INVESTMENT_ALLOWED_TENURES == {6, 12, 24, 36}

\* One (threshold, rate) entry of a slab table: threshold in rupees, rate in
\* hundredths of a percent.
Slab(threshold, rate) ==
  [threshold |-> DecFromInt(threshold), rate |-> DecFromCents(rate)]

INTEREST_SLABS == <<Slab(50000, 1400), Slab(200000, 1200), Slab(500000, 1000)>>
DEFAULT_INTEREST_RATE == DecFromCents(850)

FD_INTEREST_SLABS == <<Slab(50000, 650), Slab(200000, 700), Slab(500000, 750)>>
FD_DEFAULT_RATE == DecFromCents(800)

RD_INTEREST_SLABS == <<Slab(5000, 600), Slab(20000, 650)>>
RD_DEFAULT_RATE == DecFromCents(700)

SetMin(S) == CHOOSE m \in S : \A k \in S : m <= k

\* `if principal <= threshold` of the three lookups.
WithinSlabStrict(amount, threshold) == DecCmp(amount, threshold) < 0
WithinSlab(amount, threshold) == DecCmp(amount, threshold) <= 0

\* `for threshold, rate in slabs: if amount <= threshold: return rate`, then
\* `return default`: the rate of the first entry, in table order, that the
\* amount is within.
FirstSlabRate(slabs, default, amount) ==
  LET hits == {i \in 1..Len(slabs) : WithinSlab(amount, slabs[i].threshold)}
  IN IF hits = {} THEN default ELSE slabs[SetMin(hits)].rate

get_interest_rate_for_amount(principal) ==
  FirstSlabRate(INTEREST_SLABS, DEFAULT_INTEREST_RATE, principal)

get_fd_rate(principal) ==
  FirstSlabRate(FD_INTEREST_SLABS, FD_DEFAULT_RATE, principal)

get_rd_rate(installment) ==
  FirstSlabRate(RD_INTEREST_SLABS, RD_DEFAULT_RATE, installment)

\* `principal * monthly_rate * (1 + monthly_rate) ** n / ((1 + monthly_rate) ** n - 1)`,
\* evaluated left to right, each operation rounded by the context.
EmiFormula(principal, monthly_rate, tenure_months) ==
  LET power_term == DecPow(DecAdd(DecFromInt(1), monthly_rate), tenure_months)
  IN DecDiv(DecMul(DecMul(principal, monthly_rate), power_term),
            DecSub(power_term, DecFromInt(1)))

\* `if principal <= 0 or annual_rate < 0 or tenure_months <= 0: raise`
InvalidEmiParameters(principal, annual_rate, tenure_months) ==
  \/ DecCmp(principal, DecZero) <= 0
  \/ DecCmp(annual_rate, DecZero) < 0
  \/ tenure_months <= 0

\* LoanService.calculate_emi past its argument check: `round(emi, 2)` is
\* quantize(Decimal('0.01')) under the context's rounding.
LoanService_calculate_emi(principal, annual_rate, tenure_months) ==
  LET monthly_rate == DecDiv(annual_rate, DecFromInt(1200))
      emi == IF DecCmp(monthly_rate, DecZero) > 0
               THEN EmiFormula(principal, monthly_rate, tenure_months)
               ELSE DecDiv(principal, DecFromInt(tenure_months))
  IN DecQuantize(emi, "ROUND_HALF_EVEN")

\* LoanRepository.calculate_emi: the quotient is returned as it is when the
\* rate is 0, the formula's value is quantized.
LoanRepository_calculate_emi(principal, annual_rate, tenure_months) ==
  IF DecIsZero(annual_rate)
    THEN DecDiv(principal, DecFromInt(tenure_months))
    ELSE DecQuantize(EmiFormula(principal,
                                DecDiv(annual_rate, DecFromInt(12 * 100)),
                                tenure_months),
                     "ROUND_HALF_EVEN")

\* One pass of the loop of _create_emi_schedule: the two components of the
\* installment, from the principal still outstanding.
EmiComponents(emi_amount, monthly_rate, remaining_principal) ==
  LET interest_component == DecMul(remaining_principal, monthly_rate)
  IN [principal_component |-> DecSub(emi_amount, interest_component),
      interest_component |-> interest_component]

\* The rows `emis` built by passes i..tenure_months of the loop.
RECURSIVE EmiRowsFrom(_, _, _, _, _, _)
EmiRowsFrom(i, loan_id, emi_amount, tenure_months, monthly_rate, remaining_principal) ==
  IF i > tenure_months THEN <<>>
  ELSE LET parts == EmiComponents(emi_amount, monthly_rate, remaining_principal)
       IN <<[loan_id |-> loan_id, installment_number |-> i,
             principal_component |-> parts.principal_component,
             interest_component |-> parts.interest_component,
             total_emi |-> emi_amount, status |-> "due"]>>
          \o EmiRowsFrom(i + 1, loan_id, emi_amount, tenure_months, monthly_rate,
                         DecSub(remaining_principal, parts.principal_component))

\* LoanRepository._create_emi_schedule: the rows handed to execute_many.  The
\* column types of loan_emi are declared outside these sources; a row holds
\* the values the INSERT is given.
_create_emi_schedule(loan_id, emi_amount, tenure_months, annual_rate, principal) ==
  EmiRowsFrom(1, loan_id, emi_amount, tenure_months,
              DecDiv(annual_rate, DecFromInt(12 * 100)), principal)

\* ------------------------------------------------------------ RD maturity
\* calculate_rd_maturity without the final `* (1 + monthly_rate)`: each
\* installment would earn interest from the end of its month.
calculate_rd_maturity_Arrears(installment, rate, tenure_months) ==
  LET monthly_rate == DecDiv(rate, DecFromInt(1200))
      growth == DecAdd(DecFromInt(1), monthly_rate)
      maturity ==
        IF DecCmp(monthly_rate, DecZero) > 0
          THEN DecDiv(DecMul(installment,
                             DecSub(DecPow(growth, tenure_months),
                                    DecFromInt(1))),
                      monthly_rate)
          ELSE DecMul(installment, DecFromInt(tenure_months))
  IN DecQuantize(maturity, "ROUND_HALF_EVEN")

\* InvestmentService.calculate_rd_maturity.
calculate_rd_maturity(installment, rate, tenure_months) ==
  LET monthly_rate == DecDiv(rate, DecFromInt(1200))
      growth == DecAdd(DecFromInt(1), monthly_rate)
      maturity ==
        IF DecCmp(monthly_rate, DecZero) > 0
          THEN DecMul(DecDiv(DecMul(installment,
                                    DecSub(DecPow(growth, tenure_months),
                                           DecFromInt(1))),
                             monthly_rate),
                      growth)
          ELSE DecMul(installment, DecFromInt(tenure_months))
  IN DecQuantize(maturity, "ROUND_HALF_EVEN")

\* `annual_rate = interest_rate / 100; monthly_rate = annual_rate / 12`.
RdMonthlyRate(interest_rate) ==
  DecDiv(DecDiv(interest_rate, DecFromInt(100)), DecFromInt(12))

\* maturity_amount after passes 1..month of
\* `for month in range(1, months + 1)`, which adds
\* monthly_amount * ((1 + monthly_rate) ** (months - month + 1)).
\* (The sum so far is computed before the pass that adds to it.)
RECURSIVE MaturityAfter(_, _, _, _)
MaturityAfter(month, monthly_amount, monthly_rate, months) ==
  IF month = 0 THEN DecZero
  ELSE CHOOSE maturity_amount \in
         {DecAdd(before, installment_maturity) :
            before \in {MaturityAfter(month - 1, monthly_amount, monthly_rate,
                                      months)},
            installment_maturity \in
              {DecMul(monthly_amount,
                      DecPow(DecAdd(DecFromInt(1), monthly_rate),
                             months - month + 1))}} : TRUE

\* RDAccountRepository.calculate_maturity_amount for the row rd.
calculate_maturity_amount(rd) ==
  DecQuantize(MaturityAfter(rd.total_installments, rd.installment_amount,
                            RdMonthlyRate(rd.interest_rate),
                            rd.total_installments),
              "ROUND_HALF_EVEN")

\* RDAccountRepository._calculate_partial_maturity.
_calculate_partial_maturity(rd, paid_installments, interest_rate) ==
  DecQuantize(MaturityAfter(paid_installments, rd.installment_amount,
                            RdMonthlyRate(interest_rate), paid_installments),
              "ROUND_HALF_EVEN")

\* ------------------------------------------------------------ lending bounds
\* Calls begun in one behaviour of the loans and deposits desk, and of the
\* repayment desk.
MaxLoanOps == 3
MaxPayments == 6

\* Applicants (user ids), loan types, principals and tenures a caller may
\* pass to apply_for_loan; principals and installments are in paise.
Applicants == {2, 3}
LoanTypes == {"personal", "home"}
LoanPrincipals == {0, 100000}
LoanTenures == {6, 9}

\* Loan ids a caller may pass (rows are numbered from 1), and installment
\* numbers (the first and the last of a 6-month schedule, and one past it).
ArgLoans == {1, 2}
ArgInstallments == {1, 6, 7}

\* Amounts and tenures a caller may pass to open_fd / open_rd.
DepositAmounts == {0, 1000000}
DepositTenures == {6, 9}

\* The administrator who approves and rejects.
LoanAdmin == 1

\* credit_score: the rows stored, one per user who has been scored, as
\* _dict_to_credit_score builds them (a CreditScore has the fields score_id,
\* user_id, score, reason_summary and calculated_at).
credit_score ==
  {[score_id |-> 1, user_id |-> 1, score |-> 720],
   [score_id |-> 2, user_id |-> 3, score |-> 550]}

\* CreditScoreRepository.get_latest_score: the user's row, or None.
get_latest_score(user_id) ==
  IF \E r \in credit_score : r.user_id = user_id
    THEN [found |-> TRUE,
          row |-> CHOOSE r \in credit_score : r.user_id = user_id]
    ELSE [found |-> FALSE]

\* Python's getattr(obj, name, default).
getattr(obj, name, default) ==
  IF name \in DOMAIN obj THEN obj[name] ELSE default

\* `getattr(score_data, "current_score", 0) if score_data else 0`.
current_score(u) ==
  LET score_data == get_latest_score(u)
  IN IF score_data.found THEN getattr(score_data.row, "current_score", 0)
     ELSE 0

\* ------------------------------------------------------------ lending plumbing
ledger == <<balance, status, transactions, txn_ids, opening>>

\* Session p calls a method of the loans or deposits module with arguments c;
\* the loans and their schedules as they are now are kept for the properties.
LendingStart(p, c, next, limit) ==
  /\ pc[p] = "idle"
  /\ ops < limit
  /\ ops' = ops + 1
  /\ pc' = [pc EXCEPT ![p] = next]
  /\ call' = [call EXCEPT ![p] = c]
  /\ pre' = [pre EXCEPT ![p] = [loans |-> loans, loan_emi |-> loan_emi]]
  /\ result' = [result EXCEPT ![p] = NoResult]
  /\ UNCHANGED <<ledger, audit_logs, acct, to_acct, faults, lending, calc>>

LendingFinish(p, r) ==
  /\ Finish(p, r)
  /\ loan' = [loan EXCEPT ![p] = NoLoan]
  /\ emi_data' = [emi_data EXCEPT ![p] = NoEmi]

LendingGoto(p, next) ==
  /\ Goto(p, next)
  /\ UNCHANGED emi_data

\* A check of the call fails: it raises with every table as it is.
LendingRaise(p, error, message) ==
  /\ LendingFinish(p, Raise(call[p].op, error, message))
  /\ UNCHANGED <<ledger, audit_logs, faults, ops, lending_db, calc>>

\* A statement fails in the database: it leaves the tables as they are and
\* the call raises `error` (DatabaseException from BaseRepository, or the
\* ValidationException an `except Exception` turns it into).
LendingStorageError(p, error, message) ==
  /\ LendingFinish(p, Raise(call[p].op, error, message))
  /\ faults' = faults + 1
  /\ UNCHANGED <<ledger, audit_logs, ops, lending_db, calc>>

\* `self.audit_svc.log(...)` as the call's last statement, then `return`.
Audited(p, actor_id, role, action, ok) ==
  \/ /\ AuditLog(actor_id, role, action)
     /\ LendingFinish(p, ok)
  \/ /\ LendingFinish(p, Raise(call[p].op, "DatabaseException", "audit"))
     /\ faults' = faults + 1
     /\ UNCHANGED audit_logs

\* BaseRepository.find_by_id on loans.
find_loan_by_id(loan_id) ==
  IF loan_id \in 1..Len(loans)
    THEN [found |-> TRUE, row |-> loans[loan_id]]
    ELSE NoLoan

\* ------------------------------------------------------------ apply_for_loan
ApplyCall(p) ==
  \E u \in Applicants, t \in LoanTypes, principal \in LoanPrincipals,
     n \in LoanTenures :
    \E a \in {x \in AccountIds : account_user_id(x) = u} :
      LendingStart(p, [op |-> "apply_for_loan", user_id |-> u, account_id |-> a,
                       loan_type |-> t, principal |-> Money(principal),
                       tenure_months |-> n, created_by |-> u],
                   "apl_validate", MaxLoanOps)

\* Steps 0 to 4 of apply_for_loan: loan type, tenure, the credit score read
\* from credit_scores, and the argument check of calculate_emi.
ApplyValidate(p) ==
  /\ pc[p] = "apl_validate"
  /\ LET c == call[p]
         annual_rate == get_interest_rate_for_amount(c.principal)
     IN IF c.loan_type # "personal"
          THEN LendingRaise(p, "ValidationException", "loan_type")
        ELSE IF c.tenure_months \notin ALLOWED_TENURES
          THEN LendingRaise(p, "ValidationException", "tenure")
        ELSE IF current_score(c.user_id) > 0 /\ current_score(c.user_id) < 600
          THEN LendingRaise(p, "ValidationException", "credit_score")
        ELSE IF InvalidEmiParameters(c.principal, annual_rate, c.tenure_months)
          THEN LendingRaise(p, "ValidationException", "emi")
        ELSE /\ LendingGoto(p, "apl_create")
             /\ UNCHANGED <<ledger, audit_logs, faults, ops, lending_db, loan,
                            calc>>

\* The Loan built by apply_for_loan, as create_loan inserts it.
NewLoan(c, loan_id) ==
  LET annual_rate == get_interest_rate_for_amount(c.principal)
  IN [loan_id |-> loan_id, user_id |-> c.user_id, account_id |-> c.account_id,
      principal_amount |-> c.principal,
      interest_rate_annual |-> annual_rate,
      tenure_months |-> c.tenure_months,
      emi_amount |-> LoanService_calculate_emi(c.principal, annual_rate,
                                                c.tenure_months),
      total_interest_payable |-> DecZero,
      remaining_principal |-> c.principal,
      status |-> "pending_approval"]

\* LoanRepository.create_loan (its own check, then one INSERT), then the
\* audit row.
ApplyCreateLoan(p) ==
  /\ pc[p] = "apl_create"
  /\ LET c == call[p] IN
       IF c.user_id = 0 \/ c.account_id = 0 \/ DecCmp(c.principal, DecZero) <= 0
         THEN LendingRaise(p, "ValidationException", "create_loan")
       ELSE \/ LendingStorageError(p, "DatabaseException", "create")
            \/ /\ loans' = Append(loans, NewLoan(c, Len(loans) + 1))
               /\ Audited(p, c.created_by, "customer", "LOAN_APPLY",
                          [status |-> "SUCCESS", op |-> "apply_for_loan",
                           loan_id |-> Len(loans) + 1])
               /\ UNCHANGED <<ledger, ops, loan_emi, fd_accounts, rd_accounts,
                              rd_installments, calc>>

\* ------------------------------------------------------------ approve_loan
ApproveCall(p) ==
  \E id \in ArgLoans :
    LendingStart(p, [op |-> "approve_loan", loan_id |-> id,
                     admin_user_id |-> LoanAdmin],
                 "apv_find", MaxLoanOps)

\* `loan = find_loan_by_id(loan_id); if not loan: raise`; no look at its status.
ApproveFindLoan(p) ==
  /\ pc[p] = "apv_find"
  /\ LET found == find_loan_by_id(call[p].loan_id) IN
       IF ~found.found
         THEN LendingRaise(p, "ValidationException", "Loan not found")
         ELSE /\ Goto(p, "apv_update")
              /\ loan' = [loan EXCEPT ![p] = found]
              /\ UNCHANGED <<ledger, audit_logs, faults, ops, lending_db,
                             emi_data, calc>>

\* The row after LoanRepository.approve_loan's UPDATE.
Approved(row, approved_amount, interest_rate, tenure_months, emi_amount) ==
  [row EXCEPT !.principal_amount = approved_amount,
              !.interest_rate_annual = interest_rate,
              !.tenure_months = tenure_months,
              !.emi_amount = emi_amount,
              !.total_interest_payable =
                 DecSub(DecMul(emi_amount, DecFromInt(tenure_months)),
                        approved_amount),
              !.remaining_principal = approved_amount,
              !.status = "approved"]

\* LoanRepository.approve_loan up to `success = self.update(...)`: the EMI is
\* computed from the terms read by the service, and the UPDATE is committed.
ApproveUpdateLoan(p) ==
  /\ pc[p] = "apv_update"
  /\ \/ LendingStorageError(p, "DatabaseException", "update")
     \/ LET l == loan[p].row
            emi_amount == LoanRepository_calculate_emi(
                            l.principal_amount, l.interest_rate_annual,
                            l.tenure_months)
        IN /\ loans' = [loans EXCEPT ![call[p].loan_id] =
                          Approved(@, l.principal_amount, l.interest_rate_annual,
                                   l.tenure_months, emi_amount)]
           /\ loan' = [loan EXCEPT ![p] =
                         [found |-> TRUE, row |-> l, emi_amount |-> emi_amount]]
           /\ Goto(p, "apv_schedule")
           /\ UNCHANGED <<ledger, audit_logs, faults, ops, loan_emi, fd_accounts,
                          rd_accounts, rd_installments, emi_data, calc>>

\* `self._create_emi_schedule(...)`: the rows go in with one execute_many, in
\* a transaction of its own; then the audit row.
ApproveCreateSchedule(p) ==
  /\ pc[p] = "apv_schedule"
  /\ \/ LendingStorageError(p, "ValidationException", "schedule")
     \/ LET l == loan[p].row IN
          /\ loan_emi' = loan_emi \o
               _create_emi_schedule(call[p].loan_id, loan[p].emi_amount,
                                    l.tenure_months, l.interest_rate_annual,
                                    l.principal_amount)
          /\ Audited(p, call[p].admin_user_id, "admin", "LOAN_APPROVE",
                     [status |-> "SUCCESS", op |-> "approve_loan",
                      loan_id |-> call[p].loan_id])
          /\ UNCHANGED <<ledger, ops, loans, fd_accounts, rd_accounts,
                         rd_installments, calc>>

\* ------------------------------------------------------------ reject_loan
RejectCall(p) ==
  \E id \in ArgLoans :
    LendingStart(p, [op |-> "reject_loan", loan_id |-> id,
                     admin_user_id |-> LoanAdmin],
                 "rej_update", MaxLoanOps)

\* `self.update(loan_id, {'status': 'rejected'})`: the loan is not read, and
\* update returns True whether or not a row matched; then the audit row.
RejectUpdate(p) ==
  /\ pc[p] = "rej_update"
  /\ \/ LendingStorageError(p, "DatabaseException", "update")
     \/ /\ loans' = [i \in 1..Len(loans) |->
                       IF i = call[p].loan_id
                         THEN [loans[i] EXCEPT !.status = "rejected"]
                         ELSE loans[i]]
        /\ Audited(p, call[p].admin_user_id, "admin", "LOAN_REJECT",
                   [status |-> "SUCCESS", op |-> "reject_loan",
                    loan_id |-> call[p].loan_id])
        /\ UNCHANGED <<ledger, ops, loan_emi, fd_accounts, rd_accounts,
                       rd_installments, calc>>

\* ------------------------------------------------------------ open_fd
OpenFdCall(p) ==
  \E a \in {1}, n \in DepositTenures, principal \in DepositAmounts :
    LendingStart(p, [op |-> "open_fd", account_id |-> a, tenure_months |-> n,
                     principal |-> Money(principal),
                     created_by |-> account_user_id(a)],
                 "fd_validate", MaxLoanOps)

OpenFdValidate(p) ==
  /\ pc[p] = "fd_validate"
  /\ IF call[p].tenure_months \notin INVESTMENT_ALLOWED_TENURES
       THEN LendingRaise(p, "ValidationException", "tenure")
       ELSE /\ LendingGoto(p, "fd_create")
            /\ UNCHANGED <<ledger, audit_logs, faults, ops, lending_db, loan,
                           calc>>

\* FDAccountRepository.create_fd_account (its own check, then one INSERT),
\* then the audit row.  maturity_amount and the dates are derived from the
\* same arguments and read by no step here.
OpenFdCreate(p) ==
  /\ pc[p] = "fd_create"
  /\ LET c == call[p] IN
       IF c.account_id = 0 \/ DecCmp(c.principal, DecZero) <= 0
         THEN LendingRaise(p, "ValidationException", "create_fd_account")
       ELSE \/ LendingStorageError(p, "DatabaseException", "create")
            \/ /\ fd_accounts' =
                    Append(fd_accounts,
                           [fd_id |-> Len(fd_accounts) + 1,
                            account_id |-> c.account_id,
                            principal_amount |-> c.principal,
                            interest_rate |-> get_fd_rate(c.principal),
                            tenure_months |-> c.tenure_months,
                            status |-> "active"])
               /\ Audited(p, c.created_by, "customer", "FD_OPEN",
                          [status |-> "SUCCESS", op |-> "open_fd",
                           fd_id |-> Len(fd_accounts) + 1])
               /\ UNCHANGED <<ledger, ops, loans, loan_emi, rd_accounts,
                              rd_installments, calc>>

\* ------------------------------------------------------------ open_rd
OpenRdCall(p) ==
  \E a \in {1}, n \in DepositTenures, installment \in DepositAmounts :
    LendingStart(p, [op |-> "open_rd", account_id |-> a, tenure_months |-> n,
                     installment |-> Money(installment),
                     created_by |-> account_user_id(a)],
                 "rd_validate", MaxLoanOps)

OpenRdValidate(p) ==
  /\ pc[p] = "rd_validate"
  /\ IF call[p].tenure_months \notin INVESTMENT_ALLOWED_TENURES
       THEN LendingRaise(p, "ValidationException", "tenure")
       ELSE /\ LendingGoto(p, "rd_create")
            /\ UNCHANGED <<ledger, audit_logs, faults, ops, lending_db, loan,
                           calc>>

\* The RDAccount built by open_rd, as create_rd_account inserts it.
\* A date of an RD or of one of its installments is the number of months
\* (relativedelta(months = k)) from the day the RD is opened: start_date is
\* `start`, maturity_date `start + relativedelta(months = tenure_months)`,
\* next_due_date `start + relativedelta(months = 1)`.
NewRd(c, rd_id) ==
  [rd_id |-> rd_id, account_id |-> c.account_id,
   installment_amount |-> c.installment,
   total_installments |-> c.tenure_months,
   paid_installments |-> 0,
   interest_rate |-> get_rd_rate(c.installment),
   start_date |-> 0,
   maturity_date |-> c.tenure_months,
   status |-> "active",
   next_due_date |-> 1]

\* The rows `installments` built by _create_installment_schedule, with
\* `due_date = current_date + relativedelta(months = i - 1)`; status is left
\* to the column default.
RdSchedule(rd_id, rd_account) ==
  [i \in 1..rd_account.total_installments |->
     [rd_id |-> rd_id, installment_number |-> i,
      due_date |-> rd_account.start_date + (i - 1),
      amount |-> rd_account.installment_amount, status |-> "due"]]

\* RDAccountRepository.create_rd_account up to `rd_id = self.create(rd_data)`.
OpenRdCreate(p) ==
  /\ pc[p] = "rd_create"
  /\ LET c == call[p] IN
       IF c.account_id = 0 \/ DecCmp(c.installment, DecZero) <= 0
         THEN LendingRaise(p, "ValidationException", "create_rd_account")
       ELSE \/ LendingStorageError(p, "DatabaseException", "create")
            \/ /\ rd_accounts' = Append(rd_accounts,
                                         NewRd(c, Len(rd_accounts) + 1))
               /\ loan' = [loan EXCEPT ![p] =
                             [found |-> TRUE, rd_id |-> Len(rd_accounts) + 1]]
               /\ Goto(p, "rd_schedule")
               /\ UNCHANGED <<ledger, audit_logs, faults, ops, loans, loan_emi,
                              fd_accounts, rd_installments, emi_data, calc>>

\* RDAccountRepository._create_installment_schedule: one row per month, put
\* in with one execute_many; then the audit row of open_rd.
OpenRdSchedule(p) ==
  /\ pc[p] = "rd_schedule"
  /\ \/ LendingStorageError(p, "ValidationException", "schedule")
     \/ /\ rd_installments' =
             rd_installments \o RdSchedule(loan[p].rd_id,
                                           NewRd(call[p], loan[p].rd_id))
        /\ Audited(p, call[p].created_by, "customer", "RD_OPEN",
                   [status |-> "SUCCESS", op |-> "open_rd",
                    rd_id |-> loan[p].rd_id])
        /\ UNCHANGED <<ledger, ops, loans, loan_emi, fd_accounts, rd_accounts,
                       calc>>

\* ------------------------------------------------------------ closing an FD
\* FD and RD ids a caller may pass (2 has no row when one deposit is open),
\* closure types, and the days since start_date on the day of the call.
ArgDeposits == {1, 2}
ClosureTypes == {"matured", "premature"}
DaysCompleted == {0, 90}

\* BaseRepository.find_by_id on fd_accounts.
find_fd_by_id(fd_id) ==
  IF fd_id \in 1..Len(fd_accounts)
    THEN [found |-> TRUE, row |-> fd_accounts[fd_id]]
    ELSE [found |-> FALSE]

\* `self.update(fd_id, {'status': status})`: the row is not read first.
FdStatusUpdate(fd_id, new_status) ==
  fd_accounts' = [i \in 1..Len(fd_accounts) |->
                    IF i = fd_id
                      THEN [fd_accounts[i] EXCEPT !.status = new_status]
                      ELSE fd_accounts[i]]

CloseFdCall(p) ==
  \E id \in ArgDeposits, t \in ClosureTypes :
    LendingStart(p, [op |-> "close_fd", fd_id |-> id, closure_type |-> t],
                 "cfd_update", MaxLoanOps)

\* FDAccountRepository.close_fd: the status is chosen from closure_type alone.
CloseFdUpdate(p) ==
  /\ pc[p] = "cfd_update"
  /\ \/ LendingStorageError(p, "DatabaseException", "update")
     \/ /\ FdStatusUpdate(call[p].fd_id,
                           IF call[p].closure_type = "premature"
                             THEN "premature_closed" ELSE "closed")
        /\ LendingFinish(p, [status |-> "SUCCESS", op |-> "close_fd",
                             fd_id |-> call[p].fd_id])
        /\ UNCHANGED <<ledger, audit_logs, faults, ops, loans, loan_emi,
                       rd_accounts, rd_installments, calc>>

PrematureCloseFdCall(p) ==
  \E id \in ArgDeposits, days \in DaysCompleted :
    LendingStart(p, [op |-> "premature_close_fd", fd_id |-> id,
                     days_completed |-> days],
                 "pfd_find", MaxLoanOps)

\* premature_close_fd up to the closure amount.  After 90 days it evaluates
\* `fd.interest_rate * 0.75`, a Decimal times a float, which raises TypeError.
PrematureCloseFdFind(p) ==
  /\ pc[p] = "pfd_find"
  /\ LET fd == find_fd_by_id(call[p].fd_id) IN
       IF ~fd.found
         THEN LendingRaise(p, "ValidationException", "FD not found")
       ELSE IF fd.row.status # "active"
         THEN LendingRaise(p, "ValidationException", "FD is not active")
       ELSE IF call[p].days_completed >= 90
         THEN LendingRaise(p, "TypeError", "Decimal * float")
       ELSE /\ Goto(p, "pfd_close")
            /\ loan' = [loan EXCEPT ![p] = fd]
            /\ UNCHANGED <<ledger, audit_logs, faults, ops, lending_db,
                           emi_data, calc>>

\* `self.close_fd(fd_id, 'premature')`, then the result.
PrematureCloseFdClose(p) ==
  /\ pc[p] = "pfd_close"
  /\ \/ LendingStorageError(p, "DatabaseException", "update")
     \/ /\ FdStatusUpdate(call[p].fd_id, "premature_closed")
        /\ LendingFinish(p, [status |-> "SUCCESS", op |-> "premature_close_fd",
                             fd_id |-> call[p].fd_id,
                             closure_amount |-> loan[p].row.principal_amount,
                             penalty_amount |-> DecZero])
        /\ UNCHANGED <<ledger, audit_logs, faults, ops, loans, loan_emi,
                       rd_accounts, rd_installments, calc>>

DepositStep(p) ==
  \/ OpenFdCall(p) \/ OpenFdValidate(p) \/ OpenFdCreate(p)
  \/ OpenRdCall(p) \/ OpenRdValidate(p) \/ OpenRdCreate(p) \/ OpenRdSchedule(p)
  \/ CloseFdCall(p) \/ CloseFdUpdate(p)
  \/ PrematureCloseFdCall(p) \/ PrematureCloseFdFind(p)
  \/ PrematureCloseFdClose(p)

\* ------------------------------------------------------------ RD installments
\* Calls begun in one behaviour of the RD desk.
MaxRdOps == 3

\* Installment numbers a caller may pass: two of the schedule, and one past
\* the end of a 6-month schedule.
ArgRdInstallments == {5, 6, 7}

\* NULL in a date column.
NullDate == -1

\* The rows of rd_installments for an RD and an installment number.
RdRows(rd_id, installment_number) ==
  {i \in 1..Len(rd_installments) :
     /\ rd_installments[i].rd_id = rd_id
     /\ rd_installments[i].installment_number = installment_number}

\* `UPDATE rd_installments SET status = ... WHERE rd_id = %s AND installment_number = %s`
RdInstallmentUpdate(rd_id, installment_number, new_status) ==
  rd_installments' =
    [i \in 1..Len(rd_installments) |->
       IF i \in RdRows(rd_id, installment_number)
         THEN [rd_installments[i] EXCEPT !.status = new_status]
         ELSE rd_installments[i]]

\* `SELECT MIN(due_date) FROM rd_installments WHERE rd_id = %s AND status = 'due'`
MinDueDate(rd_id) ==
  LET due == {rd_installments[i].due_date :
                i \in {k \in 1..Len(rd_installments) :
                         /\ rd_installments[k].rd_id = rd_id
                         /\ rd_installments[k].status = "due"}}
  IN IF due = {} THEN NullDate ELSE SetMin(due)

\* BaseRepository.find_by_id on rd_accounts.
find_rd_by_id(rd_id) ==
  IF rd_id \in 1..Len(rd_accounts)
    THEN [found |-> TRUE, row |-> rd_accounts[rd_id]]
    ELSE [found |-> FALSE]

PayInstallmentCall(p) ==
  \E id \in ArgDeposits, k \in ArgRdInstallments :
    LendingStart(p, [op |-> "pay_installment", rd_id |-> id,
                     installment_number |-> k],
                 "pin_mark", MaxRdOps)

\* The first UPDATE of pay_installment: neither the RD nor the installment
\* is read, and an UPDATE that matches no row succeeds.
PayInstallmentMarkPaid(p) ==
  /\ pc[p] = "pin_mark"
  /\ \/ LendingStorageError(p, "ValidationException", "paying installment")
     \/ /\ RdInstallmentUpdate(call[p].rd_id, call[p].installment_number,
                                "paid")
        /\ LendingGoto(p, "pin_count")
        /\ UNCHANGED <<ledger, audit_logs, faults, ops, loans, loan_emi,
                       fd_accounts, rd_accounts, loan, calc>>

\* The second UPDATE: `paid_installments = paid_installments + 1` and the
\* next due date, for the row of rd_accounts if there is one.
PayInstallmentCount(p) ==
  /\ pc[p] = "pin_count"
  /\ \/ LendingStorageError(p, "ValidationException", "paying installment")
     \/ /\ rd_accounts' =
             [i \in 1..Len(rd_accounts) |->
                IF i = call[p].rd_id
                  THEN [rd_accounts[i] EXCEPT
                          !.paid_installments = @ + 1,
                          !.next_due_date = MinDueDate(call[p].rd_id)]
                  ELSE rd_accounts[i]]
        /\ LendingFinish(p, [status |-> "SUCCESS", op |-> "pay_installment",
                             rd_id |-> call[p].rd_id])
        /\ UNCHANGED <<ledger, audit_logs, faults, ops, loans, loan_emi,
                       fd_accounts, rd_installments, calc>>

MarkMissedCall(p) ==
  \E id \in ArgDeposits, k \in ArgRdInstallments :
    LendingStart(p, [op |-> "mark_installment_missed", rd_id |-> id,
                     installment_number |-> k],
                 "mis_mark", MaxRdOps)

\* The first UPDATE of mark_installment_missed.
MarkMissedUpdate(p) ==
  /\ pc[p] = "mis_mark"
  /\ \/ LendingStorageError(p, "ValidationException", "marking missed")
     \/ /\ RdInstallmentUpdate(call[p].rd_id, call[p].installment_number,
                                "missed")
        /\ LendingGoto(p, "mis_due")
        /\ UNCHANGED <<ledger, audit_logs, faults, ops, loans, loan_emi,
                       fd_accounts, rd_accounts, loan, calc>>

\* The second UPDATE: the next due date.
MarkMissedNextDue(p) ==
  /\ pc[p] = "mis_due"
  /\ \/ LendingStorageError(p, "ValidationException", "marking missed")
     \/ /\ rd_accounts' =
             [i \in 1..Len(rd_accounts) |->
                IF i = call[p].rd_id
                  THEN [rd_accounts[i] EXCEPT
                          !.next_due_date = MinDueDate(call[p].rd_id)]
                  ELSE rd_accounts[i]]
        /\ LendingFinish(p, [status |-> "SUCCESS",
                             op |-> "mark_installment_missed",
                             rd_id |-> call[p].rd_id])
        /\ UNCHANGED <<ledger, audit_logs, faults, ops, loans, loan_emi,
                       fd_accounts, rd_installments, calc>>

\* ------------------------------------------------------------ close_rd
CloseRdCall(p) ==
  \E id \in ArgDeposits, t \in ClosureTypes :
    LendingStart(p, [op |-> "close_rd", rd_id |-> id, closure_type |-> t],
                 "crd_find", MaxRdOps)

\* Fewer than this many paid installments: a premature closure pays no
\* interest.
MinPaidForInterest == 6

\* close_rd up to the closure amount.  With 6 or more paid installments a
\* premature closure evaluates `rd.interest_rate * 0.75`, a Decimal times a
\* float, which raises TypeError.
CloseRdFind(p) ==
  /\ pc[p] = "crd_find"
  /\ LET rd == find_rd_by_id(call[p].rd_id) IN
       IF ~rd.found
         THEN LendingRaise(p, "ValidationException", "RD not found")
       ELSE IF /\ call[p].closure_type = "premature"
               /\ rd.row.paid_installments >= MinPaidForInterest
         THEN LendingRaise(p, "TypeError", "Decimal * float")
       ELSE /\ Goto(p, "crd_update")
            /\ loan' = [loan EXCEPT ![p] = rd]
            /\ \E total_deposited \in
                    {DecMul(rd.row.installment_amount,
                            DecFromInt(rd.row.paid_installments))} :
                 \E closure_amount \in
                     {IF call[p].closure_type = "premature"
                        THEN total_deposited
                        ELSE calculate_maturity_amount(rd.row)} :
                   emi_data' =
                     [emi_data EXCEPT ![p] =
                        [found |-> TRUE,
                         total_deposited |-> total_deposited,
                         closure_amount |-> closure_amount]]
            /\ UNCHANGED <<ledger, audit_logs, faults, ops, lending_db, calc>>

\* `self.update(rd_id, {'status': status})`, then the result.
CloseRdUpdate(p) ==
  /\ pc[p] = "crd_update"
  /\ \/ LendingStorageError(p, "DatabaseException", "update")
     \/ /\ rd_accounts' =
             [i \in 1..Len(rd_accounts) |->
                IF i = call[p].rd_id
                  THEN [rd_accounts[i] EXCEPT !.status = "closed"]
                  ELSE rd_accounts[i]]
        /\ LendingFinish(p, [status |-> "SUCCESS", op |-> "close_rd",
                             rd_id |-> call[p].rd_id,
                             closure_type |-> call[p].closure_type,
                             paid_installments |-> loan[p].row.paid_installments,
                             total_deposited |-> emi_data[p].total_deposited,
                             closure_amount |-> emi_data[p].closure_amount,
                             interest_earned |->
                               DecSub(emi_data[p].closure_amount,
                                      emi_data[p].total_deposited)])
        /\ UNCHANGED <<ledger, audit_logs, faults, ops, loans, loan_emi,
                       fd_accounts, rd_installments, calc>>

RdStep(p) ==
  \/ PayInstallmentCall(p) \/ PayInstallmentMarkPaid(p)
  \/ PayInstallmentCount(p)
  \/ MarkMissedCall(p) \/ MarkMissedUpdate(p) \/ MarkMissedNextDue(p)
  \/ CloseRdCall(p) \/ CloseRdFind(p) \/ CloseRdUpdate(p)

\* ------------------------------------------------------------ pay_emi
PayEmiCall(p) ==
  \E id \in ArgLoans, k \in ArgInstallments :
    LendingStart(p, [op |-> "pay_emi", loan_id |-> id, installment_number |-> k],
                 "pay_select", MaxPayments)

\* The rows of loan_emi for a loan and an installment number.
EmiRows(loan_id, installment_number) ==
  {i \in 1..Len(loan_emi) :
     /\ loan_emi[i].loan_id = loan_id
     /\ loan_emi[i].installment_number = installment_number}

\* `SELECT * FROM loan_emi WHERE loan_id = %s AND installment_number = %s`,
\* fetch_one; `if not emi_data: raise`.  The row's status is not looked at.
PayEmiSelect(p) ==
  /\ pc[p] = "pay_select"
  /\ LET rows == EmiRows(call[p].loan_id, call[p].installment_number) IN
       IF rows = {}
         THEN LendingRaise(p, "ValidationException", "EMI not found")
         ELSE /\ Goto(p, "pay_mark")
              /\ emi_data' = [emi_data EXCEPT ![p] =
                                [found |-> TRUE, row |-> loan_emi[SetMin(rows)]]]
              /\ UNCHANGED <<ledger, audit_logs, faults, ops, lending_db, loan,
                             calc>>

\* `UPDATE loan_emi SET status = 'paid' WHERE loan_id = %s AND installment_number = %s`
PayEmiMarkPaid(p) ==
  /\ pc[p] = "pay_mark"
  /\ \/ LendingStorageError(p, "ValidationException", "paying")
     \/ /\ loan_emi' =
             [i \in 1..Len(loan_emi) |->
                IF i \in EmiRows(call[p].loan_id, call[p].installment_number)
                  THEN [loan_emi[i] EXCEPT !.status = "paid"]
                  ELSE loan_emi[i]]
        /\ LendingGoto(p, "pay_update")
        /\ UNCHANGED <<ledger, audit_logs, faults, ops, loans, fd_accounts,
                       rd_accounts, rd_installments, loan, calc>>

\* `UPDATE loans SET remaining_principal = remaining_principal - %s`
PayEmiUpdateLoan(p) ==
  /\ pc[p] = "pay_update"
  /\ \/ LendingStorageError(p, "ValidationException", "paying")
     \/ /\ loans' =
             [i \in 1..Len(loans) |->
                IF i = call[p].loan_id
                  THEN [loans[i] EXCEPT !.remaining_principal =
                          DecSub(@, emi_data[p].row.principal_component)]
                  ELSE loans[i]]
        /\ LendingGoto(p, "pay_close")
        /\ UNCHANGED <<ledger, audit_logs, faults, ops, loan_emi, fd_accounts,
                       rd_accounts, rd_installments, loan, calc>>

\* `loan = self.find_loan_by_id(loan_id)`;
\* `if loan and loan.remaining_principal <= 0: self.update(loan_id, {'status': 'closed'})`
PayEmiCloseIfPaid(p) ==
  /\ pc[p] = "pay_close"
  /\ LET found == find_loan_by_id(call[p].loan_id)
         ok == [status |-> "SUCCESS", op |-> "pay_emi",
                loan_id |-> call[p].loan_id,
                installment_number |-> call[p].installment_number]
     IN IF found.found /\ DecCmp(found.row.remaining_principal, DecZero) <= 0
          THEN \/ LendingStorageError(p, "ValidationException", "paying")
               \/ /\ loans' = [loans EXCEPT ![call[p].loan_id].status = "closed"]
                  /\ LendingFinish(p, ok)
                  /\ UNCHANGED <<ledger, audit_logs, faults, ops, loan_emi,
                                 fd_accounts, rd_accounts, rd_installments, calc>>
          ELSE /\ LendingFinish(p, ok)
               /\ UNCHANGED <<ledger, audit_logs, faults, ops, lending_db, calc>>

\* ------------------------------------------------------------ lending steps
LoanStep(p) ==
  \/ ApplyCall(p) \/ ApplyValidate(p) \/ ApplyCreateLoan(p)
  \/ ApproveCall(p) \/ ApproveFindLoan(p) \/ ApproveUpdateLoan(p)
  \/ ApproveCreateSchedule(p)
  \/ RejectCall(p) \/ RejectUpdate(p)
  \/ OpenFdCall(p) \/ OpenFdValidate(p) \/ OpenFdCreate(p)
  \/ OpenRdCall(p) \/ OpenRdValidate(p) \/ OpenRdCreate(p) \/ OpenRdSchedule(p)

PayEmiStep(p) ==
  \/ PayEmiCall(p) \/ PayEmiSelect(p) \/ PayEmiMarkPaid(p)
  \/ PayEmiUpdateLoan(p) \/ PayEmiCloseIfPaid(p)

\* ------------------------------------------------------------ EMI calculation
\* Principals (in paise) the calculation is run for: 1,000.00, 100,000.00 and
\* 600,000.00, one in each of three slabs.
EmiPrincipals == {100000, 10000000, 60000000}

\* The arguments of calculate_emi: a principal, its slab rate or the rate 0,
\* and an allowed tenure.
EmiInputs ==
  {[stage |-> "input", principal |-> Money(P),
    annual_rate |-> IF zero THEN DecZero
                    ELSE get_interest_rate_for_amount(Money(P)),
    tenure_months |-> n, service_emi |-> DecZero, repository_emi |-> DecZero,
    i |-> 0, remaining_principal |-> DecZero, emis |-> <<>>] :
   P \in EmiPrincipals, zero \in BOOLEAN, n \in ALLOWED_TENURES}

\* `emi = self.calculate_emi(principal, annual_rate, tenure_months)` of
\* apply_for_loan.
CalculateAtApplication ==
  /\ emi_calc.stage = "input"
  /\ emi_calc' =
       IF InvalidEmiParameters(emi_calc.principal, emi_calc.annual_rate,
                               emi_calc.tenure_months)
         THEN [emi_calc EXCEPT !.stage = "invalid"]
         ELSE [emi_calc EXCEPT
                 !.stage = "applied",
                 !.service_emi =
                    LoanService_calculate_emi(emi_calc.principal,
                                              emi_calc.annual_rate,
                                              emi_calc.tenure_months)]

\* `emi_amount = self.calculate_emi(approved_amount, interest_rate, tenure_months)`
\* of LoanRepository.approve_loan, and the first lines of _create_emi_schedule.
CalculateAtApproval ==
  /\ emi_calc.stage = "applied"
  /\ emi_calc' =
       [emi_calc EXCEPT
          !.stage = "schedule",
          !.repository_emi =
             LoanRepository_calculate_emi(emi_calc.principal,
                                          emi_calc.annual_rate,
                                          emi_calc.tenure_months),
          !.i = 1,
          !.remaining_principal = emi_calc.principal,
          !.emis = <<>>]

\* One pass of `for i in range(1, tenure_months + 1)`.
ScheduleInstallment ==
  /\ emi_calc.stage = "schedule"
  /\ emi_calc.i <= emi_calc.tenure_months
  /\ LET parts == EmiComponents(emi_calc.repository_emi,
                                DecDiv(emi_calc.annual_rate, DecFromInt(12 * 100)),
                                emi_calc.remaining_principal)
     IN emi_calc' =
          [emi_calc EXCEPT
             !.i = @ + 1,
             !.emis = Append(@, parts.principal_component),
             !.remaining_principal = DecSub(@, parts.principal_component)]

\* The loop is over: `self.db.execute_many(query, emis)`.
ScheduleInsert ==
  /\ emi_calc.stage = "schedule"
  /\ emi_calc.i > emi_calc.tenure_months
  /\ emi_calc' = [emi_calc EXCEPT !.stage = "scheduled"]

\* ------------------------------------------------------------ rate lookup
\* Amounts (in paise) the lookups are run for: 1.00, and every threshold of
\* the three tables with the amount one paisa above it.
SlabAmounts ==
  {100, 500000, 500001, 2000000, 2000001, 5000000, 5000001,
   20000000, 20000001, 50000000, 50000001}

SlabInputs ==
  {[stage |-> "input", table |-> t, amount |-> Money(a), tenure_months |-> n,
    rate |-> DecZero] :
   t \in {"loan", "fd", "rd"}, a \in SlabAmounts, n \in ALLOWED_TENURES}

\* `annual_rate = self.get_interest_rate_for_amount(principal)` of apply_for_loan.
ResolveLoanRate ==
  /\ slab_calc.stage = "input"
  /\ slab_calc.table = "loan"
  /\ slab_calc' = [slab_calc EXCEPT
                     !.stage = "resolved",
                     !.rate = get_interest_rate_for_amount(slab_calc.amount)]

\* `rate = self.get_fd_rate(principal)` of open_fd.
ResolveFdRate ==
  /\ slab_calc.stage = "input"
  /\ slab_calc.table = "fd"
  /\ slab_calc' = [slab_calc EXCEPT !.stage = "resolved",
                                    !.rate = get_fd_rate(slab_calc.amount)]

\* `rate = self.get_rd_rate(installment)` of open_rd.
ResolveRdRate ==
  /\ slab_calc.stage = "input"
  /\ slab_calc.table = "rd"
  /\ slab_calc' = [slab_calc EXCEPT !.stage = "resolved",
                                    !.rate = get_rd_rate(slab_calc.amount)]

\* ------------------------------------------------------------ RD maturity desk
\* Installments (in paise) the maturity is computed for: 0.01, 0.04, 0.05,
\* 100.00 and 25,000.00; annual rates in hundredths of a percent: 0 and the
\* lowest and highest rate of the RD slab table; and the three shortest
\* allowed tenures.
RdInstallments == {1, 4, 5, 10000, 2500000}
RdRates == {0, 600, 700}
RdTenures == {n \in INVESTMENT_ALLOWED_TENURES : n <= 24}

RdInputs ==
  {[stage |-> "input", installment |-> Money(a), rate |-> DecFromCents(r),
    tenure_months |-> n, service_maturity |-> DecZero,
    repository_maturity |-> DecZero] :
   a \in RdInstallments, r \in RdRates, n \in RdTenures}

\* `inv_svc.calculate_rd_maturity(installment, rate, tenure)`.
MaturityAtService ==
  /\ rd_calc.stage = "input"
  /\ rd_calc' =
       [rd_calc EXCEPT
          !.stage = "previewed",
          !.service_maturity =
             calculate_rd_maturity(rd_calc.installment, rd_calc.rate,
                                   rd_calc.tenure_months)]

\* `self.calculate_maturity_amount(rd_id)` for an RD opened with these
\* arguments.
MaturityAtRepository ==
  /\ rd_calc.stage = "previewed"
  /\ rd_calc' =
       [rd_calc EXCEPT
          !.stage = "matured",
          !.repository_maturity =
             calculate_maturity_amount(
               [installment_amount |-> rd_calc.installment,
                interest_rate |-> rd_calc.rate,
                total_installments |-> rd_calc.tenure_months])]

\* ------------------------------------------------------------ specification
Step(p) ==
  /\ \/ DepositCall(p) \/ DepositFindAccount(p) \/ DepositUpdateBalance(p)
     \/ DepositCreateTransaction(p)
     \/ WithdrawCall(p) \/ WithdrawFindAccount(p) \/ WithdrawCheckFunds(p)
     \/ WithdrawUpdateBalance(p) \/ WithdrawCreateTransaction(p)
     \/ TransferCall(p) \/ TransferFindFrom(p) \/ TransferFindTo(p)
     \/ TransferCheckFunds(p) \/ TransferUpdateFrom(p) \/ TransferUpdateTo(p)
     \/ TransferCreateDebit(p) \/ TransferCreateCredit(p)
     \/ FreezeCall(p) \/ FreezeFindAccount(p) \/ FreezeUpdate(p)
     \/ UnfreezeCall(p) \/ UnfreezeFindAccount(p) \/ UnfreezeUpdate(p)
     \/ CloseCall(p) \/ CloseFindAccount(p) \/ CloseUpdate(p)
  /\ UNCHANGED <<lending, calc>>

\* Sessions run concurrently: any session may execute its next statement.
Next == \E p \in Procs : Step(p)

Spec == Init /\ [][Next]_vars

\* One call at a time: every call is issued by the same session, each after
\* the one before it has returned or raised.
Caller == "s1"

SeqNext == Step(Caller)

SeqSpec == Init /\ [][SeqNext]_vars

\* The account operations of the back office, one call at a time: the money
\* movements, the status changes and the low-balance penalty.
BackOfficeNext == Step(Caller) \/ PenaltyStep(Caller)

BackOfficeSpec == Init /\ [][BackOfficeNext]_vars

\* ------------------------------------------------------------ lending specifications
\* No call in progress in any session.
SessionsIdle ==
  /\ pc = [p \in Procs |-> "idle"]
  /\ call = [p \in Procs |-> NoCall]
  /\ acct = [p \in Procs |-> NoAccount]
  /\ to_acct = [p \in Procs |-> NoAccount]
  /\ txn_ids = [p \in Procs |-> <<>>]
  /\ result = [p \in Procs |-> NoResult]
  /\ pre = [p \in Procs |-> NoPre]
  /\ loan = [p \in Procs |-> NoLoan]
  /\ emi_data = [p \in Procs |-> NoEmi]

\* The accounts as opened, with no money movement yet.
AccountsAtRest ==
  /\ balance = [a \in AccountIds |-> 0]
  /\ status = [a \in AccountIds |-> "active"]
  /\ transactions = <<>>
  /\ opening = balance
  /\ faults = 0
  /\ ops = 0

\* The loans and deposits desk, one call at a time, from empty tables.
LoanInit ==
  /\ AccountsAtRest
  /\ SessionsIdle
  /\ audit_logs = 0
  /\ loans = <<>>
  /\ loan_emi = <<>>
  /\ fd_accounts = <<>>
  /\ rd_accounts = <<>>
  /\ rd_installments = <<>>
  /\ emi_calc = NoCalc
  /\ slab_calc = NoCalc
  /\ rd_calc = NoCalc

LoanNext == LoanStep(Caller)

LoanSpec == LoanInit /\ [][LoanNext]_vars

\* The deposits desk, one call at a time, from empty tables.
DepositNext == DepositStep(Caller)

DepositSpec == LoanInit /\ [][DepositNext]_vars

\* The RD the RD desk starts with: 10,000.00 a month over 6 months on
\* account 1, opened by its owner.
OpenedRd ==
  NewRd([account_id |-> 1, tenure_months |-> 6, installment |-> Money(1000000),
         created_by |-> 2], 1)

\* Installments of that RD already paid when the RD desk opens.
PaidAtStart == {1, 2, 3, 4}

\* The state after open_rd of that RD and pay_installment of its first
\* installments, one call each.
RdInit ==
  /\ AccountsAtRest
  /\ SessionsIdle
  /\ audit_logs = 1
  /\ loans = <<>>
  /\ loan_emi = <<>>
  /\ fd_accounts = <<>>
  /\ \E rd \in {OpenedRd} :
       /\ rd_accounts =
            <<[rd EXCEPT
                 !.paid_installments = Cardinality(PaidAtStart),
                 !.next_due_date =
                   SetMin({RdSchedule(1, rd)[i].due_date :
                             i \in (1..rd.total_installments) \ PaidAtStart})]>>
       /\ rd_installments =
            [i \in 1..rd.total_installments |->
               [RdSchedule(1, rd)[i] EXCEPT
                  !.status = IF i \in PaidAtStart THEN "paid" ELSE @]]
  /\ emi_calc = NoCalc
  /\ slab_calc = NoCalc
  /\ rd_calc = NoCalc

RdNext == RdStep(Caller)

RdSpec == RdInit /\ [][RdNext]_vars

\* The loan the repayment desk starts with: 1,000.00 over 6 months, applied
\* for by user 2 on account 1.
RepaymentApplication ==
  NewLoan([user_id |-> 2, account_id |-> 1,
           principal |-> Money(100000), tenure_months |-> 6], 1)

\* That loan once approve_loan has updated it.
RepaymentLoan(l) ==
  Approved(l, l.principal_amount, l.interest_rate_annual, l.tenure_months,
           LoanRepository_calculate_emi(l.principal_amount,
                                        l.interest_rate_annual,
                                        l.tenure_months))

\* The state after apply_for_loan and approve_loan of that loan.
RepaymentInit ==
  /\ AccountsAtRest
  /\ SessionsIdle
  /\ audit_logs = 2
  /\ \E l \in {RepaymentApplication} :
       \E approved \in {RepaymentLoan(l)} :
         /\ loans = <<approved>>
         /\ loan_emi = _create_emi_schedule(1, approved.emi_amount,
                                            approved.tenure_months,
                                            approved.interest_rate_annual,
                                            approved.principal_amount)
  /\ fd_accounts = <<>>
  /\ rd_accounts = <<>>
  /\ rd_installments = <<>>
  /\ emi_calc = NoCalc
  /\ slab_calc = NoCalc
  /\ rd_calc = NoCalc

RepaymentNext == PayEmiStep(Caller)

RepaymentSpec == RepaymentInit /\ [][RepaymentNext]_vars

\* The EMI of a loan as computed when it is applied for and when it is
\* approved, and its schedule, for each input.
EmiInit ==
  /\ AccountsAtRest
  /\ SessionsIdle
  /\ audit_logs = 0
  /\ loans = <<>>
  /\ loan_emi = <<>>
  /\ fd_accounts = <<>>
  /\ rd_accounts = <<>>
  /\ rd_installments = <<>>
  /\ emi_calc \in EmiInputs
  /\ slab_calc = NoCalc
  /\ rd_calc = NoCalc

EmiNext ==
  /\ \/ CalculateAtApplication
     \/ CalculateAtApproval
     \/ ScheduleInstallment
     \/ ScheduleInsert
  /\ UNCHANGED <<db, pc, call, acct, to_acct, txn_ids, result, pre, opening,
                 faults, ops, lending, slab_calc, rd_calc>>

EmiSpec == EmiInit /\ [][EmiNext]_vars

\* The rate lookups of the three slab tables, for each input.
SlabInit ==
  /\ AccountsAtRest
  /\ SessionsIdle
  /\ audit_logs = 0
  /\ loans = <<>>
  /\ loan_emi = <<>>
  /\ fd_accounts = <<>>
  /\ rd_accounts = <<>>
  /\ rd_installments = <<>>
  /\ emi_calc = NoCalc
  /\ slab_calc \in SlabInputs
  /\ rd_calc = NoCalc

SlabNext ==
  /\ ResolveLoanRate \/ ResolveFdRate \/ ResolveRdRate
  /\ UNCHANGED <<db, pc, call, acct, to_acct, txn_ids, result, pre, opening,
                 faults, ops, lending, emi_calc, rd_calc>>

SlabSpec == SlabInit /\ [][SlabNext]_vars

\* The RD maturity as the service and the repository compute it, for each
\* input.
MaturityInit ==
  /\ AccountsAtRest
  /\ SessionsIdle
  /\ audit_logs = 0
  /\ loans = <<>>
  /\ loan_emi = <<>>
  /\ fd_accounts = <<>>
  /\ rd_accounts = <<>>
  /\ rd_installments = <<>>
  /\ emi_calc = NoCalc
  /\ slab_calc = NoCalc
  /\ rd_calc \in RdInputs

MaturityNext ==
  /\ MaturityAtService \/ MaturityAtRepository
  /\ UNCHANGED <<db, pc, call, acct, to_acct, txn_ids, result, pre, opening,
                 faults, ops, lending, emi_calc, slab_calc>>

MaturitySpec == MaturityInit /\ [][MaturityNext]_vars

\* ------------------------------------------------------------ properties
MoneyOps == {"deposit", "withdraw", "transfer"}

\* Session p ends its call in this step.
Returns(p) == pc[p] # "idle" /\ pc'[p] = "idle"

\* The step is taken by session p, whose call is in progress.
StepOf(p) == pc[p] # "idle" /\ pc'[p] # pc[p]

\* C1: with calls executed one at a time, every account keeps
\* balance + overdraft limit >= 0 in every reachable state.
C1_OverdraftBound ==
  \A a \in AccountIds : balance[a] + account_od_limit(a) >= 0

\* A withdrawal has drawn an account down to exactly minus its overdraft limit.
C1_Witness ==
  \E a \in AccountIds :
    /\ account_od_limit(a) > 0
    /\ balance[a] = -account_od_limit(a)
    /\ result[Caller].status = "SUCCESS"
    /\ result[Caller].op = "withdraw"

\* C2: two debits (withdraw or transfer) on the same source account never
\* both stand past the sufficiency check, about to write, having read the
\* same balance, when that balance cannot cover both of them.
DebitWrite == {"wdr_update", "trf_update_from"}

C2_NoStaleDoublePass ==
  \A p \in Procs : \A q \in Procs \ {p} :
    ~ /\ pc[p] \in DebitWrite
      /\ pc[q] \in DebitWrite
      /\ call[p].account_id = call[q].account_id
      /\ acct[p].balance = acct[q].balance
      /\ call[p].amount + call[q].amount >
           balance[call[p].account_id] + account_od_limit(call[p].account_id)

\* C3: a deposit, withdraw or transfer that fails leaves every balance as it
\* was when the call began and no transaction record of the attempt.
C3_FailureLeavesNoTrace ==
  [][\A p \in Procs :
       (/\ Returns(p)
        /\ call[p].op \in MoneyOps
        /\ result'[p].status = "FAILED")
       => /\ balance' = pre[p].balance
          /\ Len(transactions') = pre[p].count]_vars

\* The replay of the records of account a: credits added, debits subtracted.
RECURSIVE ReplayFrom(_, _)
ReplayFrom(a, i) ==
  IF i > Len(transactions) THEN 0
  ELSE LET t == transactions[i]
           delta == IF t.account_id # a THEN 0
                    ELSE IF t.txn_type \in {"DEPOSIT", "TRANSFER_CREDIT"}
                      THEN t.amount
                      ELSE 0 - t.amount
       IN delta + ReplayFrom(a, i + 1)

Replay(a) == ReplayFrom(a, 1)

\* C4: replaying an account's records reproduces its stored balance.  The
\* claim is granted the opening balance (create_account stores the initial
\* deposit without a record), states in which a call is still between its
\* statements, and behaviours in which a statement failed.
C4_ReplayGivesBalance ==
  (faults = 0 /\ \A p \in Procs : pc[p] = "idle")
  => \A a \in AccountIds : balance[a] = opening[a] + Replay(a)

\* C5: a successful transfer with reference R has created exactly two
\* records: a TRANSFER_DEBIT on the source, related to the destination, with
\* reference R-D, and a TRANSFER_CREDIT on the destination, related to the
\* source, with reference R-C, both for the transferred amount.
C5_TransferPair ==
  \A p \in Procs :
    (result[p].status = "SUCCESS" /\ result[p].op = "transfer")
    => LET r == result[p]
           d == transactions[r.debit_txn_id]
           c == transactions[r.credit_txn_id]
       IN /\ txn_ids[p] = <<r.debit_txn_id, r.credit_txn_id>>
          /\ r.debit_txn_id # r.credit_txn_id
          /\ d.txn_type = "TRANSFER_DEBIT"
          /\ d.account_id = r.from_account_id
          /\ d.related_account_id = r.to_account_id
          /\ d.reference = Append(r.reference, "-D")
          /\ c.txn_type = "TRANSFER_CREDIT"
          /\ c.account_id = r.to_account_id
          /\ c.related_account_id = r.from_account_id
          /\ c.reference = Append(r.reference, "-C")
          /\ d.amount = r.amount
          /\ c.amount = r.amount

C5_Witness ==
  \E p \in Procs : result[p].status = "SUCCESS" /\ result[p].op = "transfer"

\* C6: an account's balance is written only while its status is ACTIVE.
C6_BalanceWriteWhileActive ==
  [][\A a \in AccountIds :
       balance'[a] # balance[a] => status[a] = "active"]_vars

\* C7: an account's status changes only along ACTIVE->FROZEN,
\* FROZEN->ACTIVE and ACTIVE->CLOSED.
LegalTransitions ==
  {<<"active", "frozen">>, <<"frozen", "active">>, <<"active", "closed">>}

C7_LegalTransitionsOnly ==
  [][\A a \in AccountIds :
       status'[a] # status[a] => <<status[a], status'[a]>> \in LegalTransitions]_vars

\* C8: close_account on an account whose balance is not zero raises
\* ValidationException, whether it is refused for the actor's role or for the
\* balance, and changes neither status nor balance.
C8_CloseNonZeroRefused ==
  [][\A p \in Procs :
       /\ (/\ pc[p] = "cls_find"
           /\ call[p].account_id \in AccountIds
           /\ balance[call[p].account_id] # 0)
          => /\ Returns(p)
             /\ result'[p].status = "FAILED"
             /\ result'[p].error = "ValidationException"
             /\ status' = status
             /\ balance' = balance
       /\ (/\ pc[p] = "idle"
           /\ pc'[p] = "idle"
           /\ result'[p].op = "close_account"
           /\ ops' # ops)
          => /\ result'[p].status = "FAILED"
             /\ result'[p].error = "ValidationException"
             /\ status' = status
             /\ balance' = balance]_vars

\* close_account has just been refused on account 2, whose balance is negative.
C8_Witness ==
  /\ result[Caller].status = "FAILED"
  /\ result[Caller].op = "close_account"
  /\ result[Caller].message = "non-zero balance"
  /\ balance[1] = 0
  /\ balance[2] < 0
  /\ status[2] = "active"

\* The sufficiency check of session p finds the amount above what the source
\* account has available.
Short(p) ==
  /\ pc[p] \in {"wdr_check", "trf_check"}
  /\ call[p].account_id \in AccountIds
  /\ status[call[p].account_id] = "active"
  /\ call[p].amount >
       balance[call[p].account_id] + account_od_limit(call[p].account_id)

\* The call is refused for insufficient funds with nothing written.
RefusedUntouched(p) ==
  /\ Returns(p)
  /\ result'[p].status = "FAILED"
  /\ result'[p].error = "InsufficientFundsException"
  /\ balance' = balance
  /\ transactions' = transactions
  /\ balance = pre[p].balance
  /\ Len(transactions) = pre[p].count

AdminUser(u) == u \in Users /\ user_role(u) = "admin"

Authorized(c) ==
  \/ AdminUser(c.performed_by)
  \/ /\ c.op = "transfer"
     /\ c.account_id \in AccountIds
     /\ account_user_id(c.account_id) = c.performed_by

\* C10: a step of a deposit, withdraw or transfer writes a balance or a
\* record, or returns success, only when the actor is authorized.
C10_OnlyAuthorizedCommit ==
  [][\A p \in Procs :
       (/\ StepOf(p)
        /\ call[p].op \in MoneyOps
        /\ \/ balance' # balance
           \/ transactions' # transactions
           \/ result'[p].status = "SUCCESS")
       => Authorized(call[p])]_vars

\* A transfer by an actor who neither owns the source nor is an admin was
\* refused, with no record written.
C10_Witness ==
  /\ result[Caller].status = "FAILED"
  /\ result[Caller].op = "transfer"
  /\ result[Caller].message = "Unauthorized"
  /\ transactions = <<>>
  /\ balance = opening

\* The references under which a call with reference R writes its records.
ReferenceFamily(reference) ==
  {reference, Append(reference, "-D"), Append(reference, "-C")}

\* The reference of call c was supplied by the caller, not generated.
Supplied(c) == c.reference[2] = 0

\* A record written before the call of session p began carries its reference.
AlreadyRecorded(p) ==
  \E i \in 1..pre[p].count :
    transactions[i].reference \in ReferenceFamily(call[p].reference)

\* C11: a deposit, withdraw or transfer called with a caller-supplied
\* reference for which a record already exists changes no balance and
\* creates no record.
C11_SuppliedReferenceAppliedOnce ==
  [][\A p \in Procs :
       (/\ StepOf(p)
        /\ call[p].op \in MoneyOps
        /\ Supplied(call[p])
        /\ AlreadyRecorded(p))
       => /\ balance' = balance
          /\ transactions' = transactions]_vars

\* The replay of the first k records, for account a.
RECURSIVE ReplayPrefix(_, _)
ReplayPrefix(a, k) ==
  IF k = 0 THEN 0
  ELSE LET t == transactions[k]
           delta == IF t.account_id # a THEN 0
                    ELSE IF t.txn_type \in {"DEPOSIT", "TRANSFER_CREDIT"}
                      THEN t.amount
                      ELSE 0 - t.amount
       IN delta + ReplayPrefix(a, k - 1)

\* The statements at which a session reads an account row.
ReadStatements ==
  {"dep_find", "wdr_find", "wdr_check", "trf_find_from", "trf_find_to",
   "trf_check", "frz_find", "unf_find", "cls_find"}

\* C12: whenever a session is about to read (every statement before it has
\* committed, none has failed), each account's stored balance is the balance
\* given by some prefix of the committed records.
C12_BalanceMatchesRecordPrefix ==
  (faults = 0 /\ \E q \in Procs : pc[q] \in ReadStatements)
  => \A a \in AccountIds :
       \E k \in 0..Len(transactions) :
         balance[a] = opening[a] + ReplayPrefix(a, k)

\* C13: only a step of deposit, withdraw or transfer changes a balance.
C13_OnlyMoneyOpsChangeBalance ==
  [][\A p \in Procs :
       (StepOf(p) /\ balance' # balance) => call[p].op \in MoneyOps]_vars

\* C14: approve_loan and reject_loan succeed only for a loan whose status is
\* pending_approval; a call that names a loan in any other status fails with
\* a ValidationException and leaves the loans and their schedules as they
\* were when it began.
DecisionOps == {"approve_loan", "reject_loan"}

C14_DecisionOnlyWhenPending ==
  [][\A p \in Procs :
       (/\ StepOf(p)
        /\ call[p].op \in DecisionOps
        /\ call[p].loan_id \in 1..Len(pre[p].loans)
        /\ pre[p].loans[call[p].loan_id].status # "pending_approval")
       => /\ loans' = pre[p].loans
          /\ loan_emi' = pre[p].loan_emi
          /\ (pc'[p] = "idle" => /\ result'[p].status = "FAILED"
                                 /\ result'[p].error = "ValidationException")]_vars

\* C15: under any sequence of pay_emi calls no loan's remaining_principal
\* ever increases, and a loan is closed in exactly the states in which its
\* remaining_principal is 0.
C15_ClosedExactlyWhenRepaid ==
  /\ [](\A i \in 1..Len(loans) :
          loans[i].status = "closed" <=> DecIsZero(loans[i].remaining_principal))
  /\ [][\A i \in 1..Len(loans) :
          DecCmp(loans'[i].remaining_principal,
                 loans[i].remaining_principal) <= 0]_vars

\* The installment numbers of the rows loan_emi holds for a loan, one entry
\* per row.
InstallmentNumbers(loan_id) ==
  LET rows == {i \in 1..Len(loan_emi) : loan_emi[i].loan_id = loan_id}
  IN [i \in rows |-> loan_emi[i].installment_number]

\* The loan has exactly one row for each of the numbers 1..tenure_months.
FullSchedule(l) ==
  LET numbers == InstallmentNumbers(l.loan_id)
  IN /\ Cardinality(DOMAIN numbers) = l.tenure_months
     /\ {numbers[i] : i \in DOMAIN numbers} = 1..l.tenure_months

\* C16: in every state between two calls a loan has no installment rows or
\* exactly the rows 1..tenure_months, and it has them exactly when it has
\* been approved: an approved loan has its schedule, a loan that was never
\* approved has none.
C16_ScheduleExactlyWhenApproved ==
  (\A p \in Procs : pc[p] = "idle") =>
    \A i \in 1..Len(loans) :
      LET l == loans[i]
          none == DOMAIN InstallmentNumbers(l.loan_id) = {}
      IN /\ none \/ FullSchedule(l)
         /\ l.status = "approved" => FullSchedule(l)
         /\ l.status = "pending_approval" => none

\* The sum of the Decimals of a sequence, exact.
RECURSIVE DecTotal(_, _)
DecTotal(s, n) ==
  IF n = 0 THEN DecZero
  ELSE LET t == DecSum(DecTotal(s, n - 1), s[n]) IN DecMake(t.neg, t.c, t.e)

\* |a - b| <= 0.01
WithinOnePaisa(a, b) ==
  LET d == DecSum(a, DecNeg(b))
  IN DecCmp(DecMake(FALSE, d.c, d.e), DecFromCents(1)) <= 0

\* C17: for a schedule generated at approval from a principal P, the slab
\* rate of P, an allowed tenure and the EMI of calculate_emi, the principal
\* components of all installments add up to P within 0.01.
C17_PrincipalComponentsSumToPrincipal ==
  (/\ emi_calc.stage = "scheduled"
   /\ emi_calc.annual_rate = get_interest_rate_for_amount(emi_calc.principal))
  => WithinOnePaisa(DecTotal(emi_calc.emis, Len(emi_calc.emis)),
                    emi_calc.principal)

\* P * r * (1 + r)^n / ((1 + r)^n - 1) with r = rate / 1200 when rate > 0 and
\* P / n when rate is 0, rounded to 2 fractional digits with round-half-up.
HalfUpEmi(principal, annual_rate, tenure_months) ==
  DecQuantize(IF DecCmp(annual_rate, DecZero) > 0
                THEN EmiFormula(principal, DecDiv(annual_rate, DecFromInt(1200)),
                                tenure_months)
                ELSE DecDiv(principal, DecFromInt(tenure_months)),
              "ROUND_HALF_UP")

\* C18: the EMI computed at application time (LoanService) and the EMI
\* computed at approval time (LoanRepository) are both the formula's value
\* (P / n at rate 0) rounded half-up to 2 fractional digits, hence equal.
C18_BothEmisRoundedHalfUp ==
  emi_calc.stage \in {"schedule", "scheduled"} =>
    LET emi == HalfUpEmi(emi_calc.principal, emi_calc.annual_rate,
                         emi_calc.tenure_months)
    IN /\ emi_calc.service_emi = emi
       /\ emi_calc.repository_emi = emi
       /\ emi_calc.service_emi = emi_calc.repository_emi

\* The slab table and the default rate a lookup is made in.
SlabTableOf(t) ==
  CASE t = "loan" -> [slabs |-> INTEREST_SLABS, default |-> DEFAULT_INTEREST_RATE]
    [] t = "fd" -> [slabs |-> FD_INTEREST_SLABS, default |-> FD_DEFAULT_RATE]
    [] t = "rd" -> [slabs |-> RD_INTEREST_SLABS, default |-> RD_DEFAULT_RATE]

\* The rate of the lowest threshold that is >= the amount; the default rate
\* when the amount exceeds every threshold.
LowestThresholdRate(t, amount) ==
  LET slabs == SlabTableOf(t).slabs
      reach == {i \in 1..Len(slabs) : DecCmp(slabs[i].threshold, amount) >= 0}
  IN IF reach = {} THEN SlabTableOf(t).default
     ELSE LET lowest == CHOOSE i \in reach :
                          \A j \in reach :
                            DecCmp(slabs[i].threshold, slabs[j].threshold) <= 0
          IN slabs[lowest].rate

\* C19: each of the three lookups returns the rate of the lowest threshold
\* that is >= the amount (an amount equal to a threshold gets that
\* threshold's rate), the table's default rate when the amount exceeds every
\* threshold, and the same rate whatever the tenure.
C19_RateOfLowestThresholdReached ==
  slab_calc.stage = "resolved" =>
    slab_calc.rate = LowestThresholdRate(slab_calc.table, slab_calc.amount)

\* A lookup made for an amount equal to a threshold has returned that
\* threshold's rate, which is not the rate of the next slab.
C19_Witness ==
  /\ slab_calc.stage = "resolved"
  /\ \E i \in 1..Len(SlabTableOf(slab_calc.table).slabs) :
       LET slabs == SlabTableOf(slab_calc.table).slabs IN
         /\ slab_calc.amount = slabs[i].threshold
         /\ slab_calc.rate = slabs[i].rate
         /\ slab_calc.rate #
              (IF i < Len(slabs) THEN slabs[i + 1].rate
               ELSE SlabTableOf(slab_calc.table).default)

\* Calls that open a loan or a deposit for a given tenure.
TenureOps == {"apply_for_loan", "open_fd", "open_rd"}

\* C20: apply_for_loan, open_fd and open_rd reject every tenure outside
\* {6, 12, 24, 36} with a ValidationException, and no step of such a call
\* creates a loan, FD, RD or installment record.
C20_BadTenureCreatesNothing ==
  [][\A p \in Procs :
       (/\ StepOf(p)
        /\ call[p].op \in TenureOps
        /\ call[p].tenure_months \notin {6, 12, 24, 36})
       => /\ UNCHANGED lending_db
          /\ pc'[p] = "idle"
          /\ result'[p].status = "FAILED"
          /\ result'[p].error = "ValidationException"]_vars

\* The three calls have each been refused for a tenure of 9 months, with no
\* record in any of the tables.
C20_Witness ==
  /\ ops = 3
  /\ pc[Caller] = "idle"
  /\ result[Caller].status = "FAILED"
  /\ result[Caller].error = "ValidationException"
  /\ result[Caller].message = "tenure"
  /\ result[Caller].op = "open_rd"
  /\ loans = <<>> /\ loan_emi = <<>>
  /\ fd_accounts = <<>> /\ rd_accounts = <<>> /\ rd_installments = <<>>

\* C21: apply_for_loan rejects the application and creates no loan whenever
\* the applicant's most recent stored credit score is non-zero and below 600
\* (an applicant with no score or with 600 or more passes the gate).
LatestStoredScore(user_id) ==
  LET score_data == get_latest_score(user_id)
  IN IF score_data.found THEN score_data.row.score ELSE 0

C21_LowScoreIsRejected ==
  [][\A p \in Procs :
       (/\ StepOf(p)
        /\ call[p].op = "apply_for_loan"
        /\ LatestStoredScore(call[p].user_id) > 0
        /\ LatestStoredScore(call[p].user_id) < 600)
       => /\ loans' = pre[p].loans
          /\ (pc'[p] = "idle" => /\ result'[p].status = "FAILED"
                                 /\ result'[p].error = "ValidationException")]_vars

\* C22: the RD maturity for installment I, annual rate and tenure n, as the
\* service and as the repository compute it, is strictly greater than I * n
\* whenever the rate is > 0 and equals I * n when the rate is 0.
RdDeposited == DecMul(rd_calc.installment, DecFromInt(rd_calc.tenure_months))

LastRecordSteps == {"dep_record", "wdr_record", "trf_credit"}

C23_CollaboratorFailureKeepsSuccess ==
  [][\A p \in Procs :
       (/\ pc[p] \in LastRecordSteps
        /\ pc'[p] = "idle"
        /\ Len(transactions') = Len(transactions) + 1)
       => /\ balance' = balance
          /\ SubSeq(transactions', 1, Len(transactions)) = transactions
          /\ result'[p].status = "SUCCESS"]_vars

\* C24: an FD's status moves only from active to closed or from active to
\* premature_closed; once it is closed or premature_closed, neither close_fd
\* nor premature_close_fd changes its status again.
C24_FdStatusOnlyLeavesActive ==
  [][\A i \in 1..Len(fd_accounts) :
       fd_accounts'[i].status # fd_accounts[i].status
       => /\ fd_accounts[i].status = "active"
          /\ fd_accounts'[i].status \in {"closed", "premature_closed"}]_vars

\* C25: open_rd with tenure n creates, together with the RD account, exactly
\* n installments numbered 1..n where installment i is due i months after the
\* opening date, and the RD's next_due_date equals the earliest due date
\* among its installments that are still due.
InstallmentsOf(rd_id) ==
  {i \in 1..Len(rd_installments) : rd_installments[i].rd_id = rd_id}

DueDatesOf(rd_id) ==
  {rd_installments[i].due_date :
     i \in {k \in InstallmentsOf(rd_id) : rd_installments[k].status = "due"}}

C25_InstallmentsDueMonthly ==
  (\A p \in Procs : pc[p] = "idle") =>
    \A r \in 1..Len(rd_accounts) :
      /\ Cardinality(InstallmentsOf(r)) = rd_accounts[r].total_installments
      /\ {rd_installments[i].installment_number : i \in InstallmentsOf(r)}
           = 1..rd_accounts[r].total_installments
      /\ \A i \in InstallmentsOf(r) :
           rd_installments[i].due_date
             = rd_accounts[r].start_date + rd_installments[i].installment_number
      /\ DueDatesOf(r) # {}
      /\ rd_accounts[r].next_due_date = SetMin(DueDatesOf(r))


\* C26: close_rd with closure type 'premature' on an RD with p paid
\* installments returns installment amount * p with zero interest when p < 6,
\* and the maturity over the p paid installments at 75% of the contracted
\* rate when p >= 6; in both cases the call completes and the RD ends closed.
PrematureClosureAmount(rd) ==
  IF rd.paid_installments < MinPaidForInterest
    THEN DecMul(rd.installment_amount, DecFromInt(rd.paid_installments))
    ELSE _calculate_partial_maturity(rd, rd.paid_installments,
                                     DecMul(rd.interest_rate, DecFromCents(75)))

C26_PrematureClosureCompletes ==
  [][\A p \in Procs :
       (/\ pc[p] = "crd_find"
        /\ pc'[p] # pc[p]
        /\ call[p].closure_type = "premature"
        /\ find_rd_by_id(call[p].rd_id).found)
       => /\ pc'[p] = "crd_update"
          /\ emi_data'[p].closure_amount =
               PrematureClosureAmount(rd_accounts[call[p].rd_id])]_vars


\* C30: for every RD, after any sequence of pay_installment and
\* mark_installment_missed calls (repeated for one installment number, for a
\* number the schedule does not have, or on a closed RD), paid_installments
\* equals the number of that RD's installment rows with status 'paid' and
\* never exceeds total_installments.  Checked between calls none of whose
\* statements failed.
PaidRowsOf(rd_id) ==
  {i \in 1..Len(rd_installments) :
     /\ rd_installments[i].rd_id = rd_id
     /\ rd_installments[i].status = "paid"}

C30_PaidCountMatchesRows ==
  (faults = 0 /\ \A p \in Procs : pc[p] = "idle") =>
    \A r \in 1..Len(rd_accounts) :
      /\ rd_accounts[r].paid_installments = Cardinality(PaidRowsOf(r))
      /\ rd_accounts[r].paid_installments <= rd_accounts[r].total_installments


\* C29: pay_emi subtracts each installment's principal component from the
\* loan's remaining_principal at most once: a pay_emi call for an installment
\* that is already paid leaves remaining_principal and the loan's status
\* unchanged.  Checked for calls made when no statement has ever failed, so
\* that the installment was paid by a call that ran to its end.
C29_PaidInstallmentNotSubtractedAgain ==
  [][\A p \in Procs :
       (/\ faults = 0
        /\ call[p].op = "pay_emi"
        /\ pc[p] # "idle"
        /\ pc'[p] = "idle"
        /\ emi_data[p].found
        /\ emi_data[p].row.status = "paid")
       => /\ loans'[call[p].loan_id].remaining_principal
               = pre[p].loans[call[p].loan_id].remaining_principal
          /\ loans'[call[p].loan_id].status
               = pre[p].loans[call[p].loan_id].status]_vars


\* C27: a transfer of amount A lowers the source balance by exactly A and
\* raises the destination balance by exactly A, also when other deposits,
\* withdrawals or transfers on either account run concurrently: each of its
\* two balance writes moves the balance committed just before it by A, and
\* no other balance moves.
C27_TransferWritesMoveCommittedBalance ==
  [][\A p \in Procs :
       /\ (pc[p] = "trf_update_from" /\ pc'[p] = "trf_update_to")
          => balance' = [balance EXCEPT ![call[p].account_id] =
                                         @ - call[p].amount]
       /\ (pc[p] = "trf_update_to" /\ pc'[p] = "trf_debit")
          => balance' = [balance EXCEPT ![call[p].to_account_id] =
                                         @ + call[p].amount]]_vars


\* C28: in every reachable state every account whose status is CLOSED has
\* balance exactly 0, also when close_account interleaves with a concurrent
\* deposit or incoming transfer on the same account.
C28_ClosedAccountHasZeroBalance ==
  \A a \in AccountIds : status[a] = "closed" => balance[a] = 0
====
